---- MODULE Spec2Model ----
(***************************************************************************)
(* Weekly commodity price dashboard: the price-derivation pipeline         *)
(* (src/src/lib/calc.ts), the aggregations and the export of the           *)
(* application state (src/src/App.tsx), the adherence KPI (KPICards,       *)
(* src/unnamed/part_007), the ticker's price lookup                        *)
(* (src/src/components/ProductTicker.tsx), the product card                *)
(* (src/src/components/ProductCard.tsx) and the CSV parser and loader      *)
(* (src/src/lib/csvLoader.ts).                                             *)
(*                                                                         *)
(* Six specifications share the variables: Spec is the application;        *)
(* SpecCalc evaluates one pure function of the pipeline; SpecCsv is one    *)
(* call of parseCSV, one loop iteration per step; SpecLoad and SpecCells   *)
(* are one call of loadDataFromCSV from the two received texts;            *)
(* SpecLoadData is the whole load, from the two fetches to the application *)
(* that shows the loaded or the sample data, with the fairness of the      *)
(* continuations of its awaits.                                            *)
(*                                                                         *)
(* Numbers.  Prices and reference prices are integers (price units).  A    *)
(* value that the code obtains by a division is a fraction [n, d]:         *)
(*   d > 0           the finite number n / d                               *)
(*   d = 0, n > 0    Infinity                                              *)
(*   d = 0, n < 0    -Infinity                                             *)
(*   d = 0, n = 0    NaN                                                   *)
(* so that a division by zero yields what JavaScript yields, and every     *)
(* comparison with NaN is false.  Floating-point rounding is not modelled. *)
(*                                                                         *)
(* A product is a record [id, name, display_order, prices] with the field  *)
(* reference_price present or missing (undefined in the source); name is   *)
(* the collation rank of the display name under localeCompare(.., 'ar').   *)
(***************************************************************************)
EXTENDS Integers, Sequences, FiniteSets, TLC

VARIABLES
    \* React state of App (src/src/App.tsx:16-27)
    products, selectedId, loading, filterType, currentWeek, maxWeek,
    usingSampleData, initialTopId, hasUserSelected,
    \* values derived on every render (useMemo) of App and KPICards
    filteredProducts, weekDirectionCounts, displayedProducts,
    allPriceChanges, maxIncrease, maxDecrease, computedAdherence,
    \* the rows of the export that has just been written (exportToExcel's local)
    rows,
    \* one call of a function: its arguments; its position, locals and result
    arg, ret

appVars == <<products, selectedId, loading, filterType, currentWeek, maxWeek,
             usingSampleData, initialTopId, hasUserSelected>>
viewVars == <<filteredProducts, weekDirectionCounts, displayedProducts,
              allPriceChanges, maxIncrease, maxDecrease, computedAdherence>>
exportVars == <<rows>>
callVars == <<arg, ret>>
vars == <<appVars, viewVars, exportVars, callVars>>

----------------------------------------------------------------------------
(* Bounds of the model *)

\* week numbers of the evaluated observations are 1..MaxWeek
MaxWeek == 3
\* an evaluated product has at most MaxObs observations
MaxObs == 2
\* a load returns at most MaxProducts products
MaxProducts == 2

----------------------------------------------------------------------------
(* JavaScript numbers *)

Num(n, d) == [n |-> n, d |-> d]
Zero == Num(0, 1)
NaN == Num(0, 0)
Infinity == Num(1, 0)
NegInfinity == Num(-1, 0)

IsNaN(x) == x.d = 0 /\ x.n = 0
IsFinite(x) == x.d > 0

Sign(a) == IF a > 0 THEN 1 ELSE IF a < 0 THEN -1 ELSE 0

\* a / b for two integers
JsDiv(a, b) ==
    IF b > 0 THEN Num(a, b)
    ELSE IF b < 0 THEN Num(-a, -b)
    ELSE Num(Sign(a), 0)

\* x * 100
JsTimes100(x) == Num(x.n * 100, x.d)

\* -x
JsNeg(x) == Num(-x.n, x.d)

\* x > y
JsGt(x, y) ==
    IF IsNaN(x) \/ IsNaN(y) THEN FALSE
    ELSE IF x.d = 0 /\ y.d = 0 THEN x.n > 0 /\ y.n < 0
    ELSE IF x.d = 0 THEN x.n > 0
    ELSE IF y.d = 0 THEN y.n < 0
    ELSE x.n * y.d > y.n * x.d

\* x < y
JsLt(x, y) == JsGt(y, x)

\* Math.round of the finite non-negative fraction n / d: floor(n / d + 1/2)
MathRound(n, d) == (2 * n + d) \div (2 * d)

\* Math.abs(x)
JsAbs(x) == Num(IF x.n < 0 THEN 0 - x.n ELSE x.n, x.d)

RECURSIVE Pow10(_)
Pow10(k) == IF k = 0 THEN 1 ELSE 10 * Pow10(k - 1)

\* Number.prototype.toFixed(digits): the sign and the nearest multiple of
\* 10^-digits of the magnitude, the larger one of two equally near; units counts
\* these multiples, so [neg |-> FALSE, digits |-> 2, units |-> 1250] is "12.50"
toFixed(x, digits) ==
    IF IsNaN(x) THEN [text |-> "NaN"]
    ELSE IF x.d = 0 THEN [text |-> IF x.n > 0 THEN "Infinity" ELSE "-Infinity"]
    ELSE [neg |-> x.n < 0, digits |-> digits,
          units |-> MathRound(JsAbs(x).n * Pow10(digits), x.d)]

\* Array.prototype.sort with a comparator (a, b) => key(a) - key(b), which is
\* stable; keys[i] is the key of s[i]
SortByKey(s, keys) ==
    LET rank(i) == 1 + Cardinality({j \in DOMAIN s :
                        \/ keys[j] < keys[i]
                        \/ keys[j] = keys[i] /\ j < i})
    IN  [k \in 1..Len(s) |-> s[CHOOSE i \in DOMAIN s : rank(i) = k]]

Min(S) == CHOOSE x \in S : \A y \in S : x <= y
Max(S) == CHOOSE x \in S : \A y \in S : x >= y

----------------------------------------------------------------------------
(* src/src/lib/calc.ts *)

NULL == "null"
NoPriceChange == [null |-> TRUE]

\* product.reference_price ?? 0
referencePrice(product) ==
    IF "reference_price" \in DOMAIN product THEN product.reference_price ELSE 0

\* mutant of weekPrice: the latest observation at or before the week
weekPrice_latest(product, week) ==
    LET upTo == {i \in DOMAIN product.prices : product.prices[i].week_number <= week}
        last == {i \in upTo : \A j \in upTo :
                    product.prices[j].week_number <= product.prices[i].week_number}
    IN  IF upTo = {} THEN 0 ELSE product.prices[Min(last)].price

\* product.prices.find(p => p.week_number === week)?.price ?? 0
weekPrice(product, week) ==
    LET found == {i \in DOMAIN product.prices : product.prices[i].week_number = week}
    IN  IF found = {} THEN 0 ELSE product.prices[Min(found)].price

\* mutant of calculatePriceChange: the division is not guarded
calculatePriceChange_unguarded(product, week) ==
    LET ref == referencePrice(product)
        change == weekPrice(product, week) - ref
    IN  [product |-> product, percent |-> JsTimes100(JsDiv(change, ref)),
         change |-> change]

calculatePriceChange(product, week) ==
    LET ref == referencePrice(product)
        change == weekPrice(product, week) - ref
        percent == IF ref > 0 THEN JsTimes100(JsDiv(change, ref)) ELSE Zero
    IN  [product |-> product, percent |-> percent, change |-> change]

ThresholdDenominator == 10000
\* the default threshold 0.0001
DefaultThreshold == Num(1, ThresholdDenominator)

\* mutant of getChangeCategory: the comparisons are not strict
getChangeCategory_inclusive(pct, threshold) ==
    IF ~JsLt(pct, threshold) /\ ~IsNaN(pct) THEN "increase"
    ELSE IF ~JsGt(pct, JsNeg(threshold)) /\ ~IsNaN(pct) THEN "decrease"
    ELSE "stable"

getChangeCategory(pct, threshold) ==
    IF JsGt(pct, threshold) THEN "increase"
    ELSE IF JsLt(pct, JsNeg(threshold)) THEN "decrease"
    ELSE "stable"

----------------------------------------------------------------------------
(* src/src/components/ProductTicker.tsx *)

\* mutant of getLatestPriceUpToWeek: the sort is ascending
getLatestPriceUpToWeek_ascending(p, week) ==
    IF Len(p.prices) = 0 THEN 0
    ELSE LET upTo == SelectSeq(p.prices, LAMBDA x : x.week_number <= week)
             sorted == SortByKey(upTo, [i \in DOMAIN upTo |-> upTo[i].week_number])
         IN  IF Len(sorted) = 0 THEN 0 ELSE sorted[1].price

\* mutant of getLatestPriceUpToWeek: the week itself is left out
getLatestPriceUpToWeek_strict(p, week) ==
    IF Len(p.prices) = 0 THEN 0
    ELSE LET upTo == SelectSeq(p.prices, LAMBDA x : x.week_number < week)
             sorted == SortByKey(upTo, [i \in DOMAIN upTo |-> 0 - upTo[i].week_number])
         IN  IF Len(sorted) = 0 THEN 0 ELSE sorted[1].price

getLatestPriceUpToWeek(p, week) ==
    IF Len(p.prices) = 0 THEN 0
    ELSE LET upTo == SelectSeq(p.prices, LAMBDA x : x.week_number <= week)
             sorted == SortByKey(upTo, [i \in DOMAIN upTo |-> 0 - upTo[i].week_number])
         IN  IF Len(sorted) = 0 THEN 0 ELSE sorted[1].price

----------------------------------------------------------------------------
(* src/src/components/ProductCard.tsx *)

\* the sign ('+', the minus sign U+2212 written "-", or none) and the magnitude
formatSignedPercent(v, decimals) ==
    [sign |-> IF JsGt(v, Zero) THEN "+" ELSE IF JsLt(v, Zero) THEN "-" ELSE "",
     abs |-> toFixed(JsAbs(v), decimals), unit |-> "%"]

formatSignedMoney(n, decimals) ==
    [sign |-> IF n > 0 THEN "+" ELSE IF n < 0 THEN "-" ELSE "",
     abs |-> toFixed(JsAbs(Num(n, 1)), decimals)]

\* the icon of a badge: above 0.5 percent, below -0.5 percent, or the arrow
badgeIcon(percent) ==
    IF JsGt(percent, Num(1, 2)) THEN "TrendingUp"
    ELSE IF JsLt(percent, Num(-1, 2)) THEN "TrendingDown"
    ELSE "arrow"

\* what the card places in a badge where the source writes the dash or nothing
Dash == [dash |-> TRUE]
Hidden == [hidden |-> TRUE]

\* mutant of ProductCard: week 1 is rendered like every other week
ProductCard_noSentinel(product, week) ==
    LET price == weekPrice(product, week)
        prevPrice == IF week > 1 THEN weekPrice(product, week - 1) ELSE 0
        refPrice == referencePrice(product)
        diffRef == price - refPrice
        pctRef == IF refPrice > 0 THEN JsTimes100(JsDiv(diffRef, refPrice)) ELSE Zero
        diffPrev == price - prevPrice
        pctPrev == IF prevPrice > 0 THEN JsTimes100(JsDiv(diffPrev, prevPrice)) ELSE Zero
    IN  [weekPrice |-> price, prevPrice |-> prevPrice,
         diffRef |-> diffRef, pctRef |-> pctRef,
         diffPrev |-> diffPrev, pctPrev |-> pctPrev,
         refIcon |-> badgeIcon(pctRef),
         refText |-> formatSignedPercent(pctRef, 1),
         refMoney |-> formatSignedMoney(diffRef, 2),
         prevIcon |-> badgeIcon(pctPrev),
         prevText |-> formatSignedPercent(pctPrev, 1),
         prevMoney |-> formatSignedMoney(diffPrev, 2)]

\* the numbers of a card (lines 41-53) and its two badges (lines 157-194)
ProductCard(product, week) ==
    LET price == weekPrice(product, week)
        prevPrice == IF week > 1 THEN weekPrice(product, week - 1) ELSE 0
        refPrice == referencePrice(product)
        diffRef == price - refPrice
        pctRef == IF refPrice > 0 THEN JsTimes100(JsDiv(diffRef, refPrice)) ELSE Zero
        diffPrev == price - prevPrice
        pctPrev == IF prevPrice > 0 THEN JsTimes100(JsDiv(diffPrev, prevPrice)) ELSE Zero
    IN  [weekPrice |-> price, prevPrice |-> prevPrice,
         diffRef |-> diffRef, pctRef |-> pctRef,
         diffPrev |-> diffPrev, pctPrev |-> pctPrev,
         refIcon |-> badgeIcon(pctRef),
         refText |-> formatSignedPercent(pctRef, 1),
         refMoney |-> formatSignedMoney(diffRef, 2),
         prevIcon |-> IF week = 1 THEN "dash" ELSE badgeIcon(pctPrev),
         prevText |-> IF week = 1 THEN Dash ELSE formatSignedPercent(pctPrev, 1),
         prevMoney |-> IF week # 1 THEN formatSignedMoney(diffPrev, 2) ELSE Hidden]

----------------------------------------------------------------------------
(* src/src/lib/csvLoader.ts: parseCSV.  A string is the sequence of its          *)
(* characters; a parsed value is [str |-> characters] or [num |-> number].     *)

QUOTE == "\""
COMMA == ","
LF == "\n"
CR == "\r"
SPACE == " "

\* csvText.replace(/\r\n/g, '\n')
RECURSIVE replaceCRLF(_)
replaceCRLF(s) ==
    IF Len(s) = 0 THEN s
    ELSE IF Len(s) >= 2 /\ s[1] = CR /\ s[2] = LF
         THEN <<LF>> \o replaceCRLF(SubSeq(s, 3, Len(s)))
         ELSE <<s[1]>> \o replaceCRLF(Tail(s))

\* .replace(/\r/g, '\n')
replaceCR(s) == [k \in DOMAIN s |-> IF s[k] = CR THEN LF ELSE s[k]]

\* String.prototype.trim: white space and line terminators go from both ends
IsWhiteSpace(ch) == ch \in {SPACE, LF, CR}
trim(s) ==
    LET kept == {k \in DOMAIN s : ~IsWhiteSpace(s[k])}
    IN  IF kept = {} THEN <<>> ELSE SubSeq(s, Min(kept), Max(kept))

\* the locals of the scanner before the loop; i counts from 1
ScanStart == [i |-> 1, field |-> <<>>, curRow |-> <<>>, rows |-> <<>>, inQuotes |-> FALSE]

pushField(st) == [st EXCEPT !.curRow = Append(@, st.field), !.field = <<>>]

\* mutant of pushRow: every row is kept
pushRow_keepBlank(st) == [st EXCEPT !.rows = Append(@, st.curRow), !.curRow = <<>>]

\* rows of blank fields are skipped
pushRow(st) ==
    [st EXCEPT !.rows = IF \E k \in DOMAIN st.curRow : trim(st.curRow[k]) # <<>>
                        THEN Append(@, st.curRow) ELSE @,
               !.curRow = <<>>]

\* mutant of scanChar: a quote always toggles the quote state
scanChar_noEscape(st, text) ==
    LET ch == text[st.i]
    IN  IF ch = QUOTE
        THEN [st EXCEPT !.inQuotes = ~@, !.i = @ + 1]
        ELSE IF ch = COMMA /\ ~st.inQuotes
        THEN [pushField(st) EXCEPT !.i = @ + 1]
        ELSE IF ch = LF /\ ~st.inQuotes
        THEN [pushRow(pushField(st)) EXCEPT !.i = @ + 1]
        ELSE [st EXCEPT !.field = Append(@, ch), !.i = @ + 1]

\* one iteration of the loop over the characters (lines 88-115)
scanChar(st, text) ==
    LET ch == text[st.i]
        nextIsQuote == st.i + 1 <= Len(text) /\ text[st.i + 1] = QUOTE
    IN  IF ch = QUOTE
        THEN IF st.inQuotes /\ nextIsQuote
             THEN [st EXCEPT !.field = Append(@, QUOTE), !.i = @ + 2]
             ELSE [st EXCEPT !.inQuotes = ~@, !.i = @ + 1]
        ELSE IF ch = COMMA /\ ~st.inQuotes
        THEN [pushField(st) EXCEPT !.i = @ + 1]
        ELSE IF ch = LF /\ ~st.inQuotes
        THEN [pushRow(pushField(st)) EXCEPT !.i = @ + 1]
        ELSE [st EXCEPT !.field = Append(@, ch), !.i = @ + 1]

RECURSIVE scanFrom(_, _)
scanFrom(st, text) ==
    IF st.i > Len(text) THEN st ELSE scanFrom(scanChar(st, text), text)

DigitChars == <<"0", "1", "2", "3", "4", "5", "6", "7", "8", "9">>
IsDigit(ch) == \E k \in DOMAIN DigitChars : DigitChars[k] = ch
DigitValue(ch) == (CHOOSE k \in DOMAIN DigitChars : DigitChars[k] = ch) - 1

\* mutant of looksLikeCode: no value is a code
looksLikeCode_never(value) == FALSE

\* /^0\d+$/
looksLikeCode(value) ==
    /\ Len(value) >= 2
    /\ value[1] = "0"
    /\ \A k \in 2..Len(value) : IsDigit(value[k])

\* /^-?\d+(\.\d+)?$/
looksNumeric(value) ==
    LET body == IF Len(value) > 0 /\ value[1] = "-" THEN Tail(value) ELSE value
        dots == {k \in DOMAIN body : body[k] = "."}
    IN  /\ Len(body) >= 1
        /\ \A k \in DOMAIN body : IsDigit(body[k]) \/ body[k] = "."
        /\ Cardinality(dots) <= 1
        /\ \A k \in dots : 1 < k /\ k < Len(body)

\* the value of a string of digits
RECURSIVE DigitsValue(_)
DigitsValue(s) ==
    IF Len(s) = 0 THEN 0
    ELSE 10 * DigitsValue(SubSeq(s, 1, Len(s) - 1)) + DigitValue(s[Len(s)])

\* the number n / d without trailing zeros of the fraction: 1.50 is 1.5
RECURSIVE Reduced(_, _)
Reduced(n, d) ==
    IF d > 1 /\ n % 10 = 0 THEN Reduced(n \div 10, d \div 10) ELSE Num(n, d)

\* Number(value) of a value that looks numeric
NumberOf(value) ==
    LET neg == value[1] = "-"
        body == IF neg THEN Tail(value) ELSE value
        digits == SelectSeq(body, IsDigit)
        dots == {k \in DOMAIN body : body[k] = "."}
        decimals == IF dots = {} THEN 0 ELSE Len(body) - Max(dots)
        magnitude == DigitsValue(digits)
    IN  Reduced(IF neg THEN 0 - magnitude ELSE magnitude, Pow10(decimals))

\* the value of one field of a record (lines 130-146)
coerce(raw) ==
    LET value == trim(raw)
    IN  IF value = <<>> THEN [str |-> <<>>]
        ELSE IF ~looksLikeCode(value) /\ looksNumeric(value)
        THEN [num |-> NumberOf(value)]
        ELSE [str |-> value]

\* values[index] ?? ''
valueAt(values, index) == IF index <= Len(values) THEN values[index] ELSE <<>>

\* mutant of toRecord: a header beyond the row's fields sets no key
toRecord_present(headers, values) ==
    [h \in {headers[k] : k \in DOMAIN headers \cap DOMAIN values} |->
        coerce(valueAt(values, Max({k \in DOMAIN headers : headers[k] = h})))]

\* headers.forEach((header, index) => obj[header] = ...): a header that occurs
\* twice keeps the value of its last column
toRecord(headers, values) ==
    [h \in {headers[k] : k \in DOMAIN headers} |->
        coerce(valueAt(values, Max({k \in DOMAIN headers : headers[k] = h})))]

toRecords(csvRows) ==
    LET headers == [k \in DOMAIN csvRows[1] |-> trim(csvRows[1][k])]
    IN  [r \in 1..(Len(csvRows) - 1) |-> toRecord(headers, csvRows[r + 1])]

\* the text that is scanned
normalizedText(csvText) == trim(replaceCR(replaceCRLF(csvText)))

\* the statements after the loop (lines 117-152)
afterScan(st) ==
    LET last == pushRow(pushField(st))
    IN  IF Len(last.rows) = 0 THEN <<>> ELSE toRecords(last.rows)

parseCSV(csvText) ==
    LET text == normalizedText(csvText)
    IN  IF text = <<>> THEN <<>> ELSE afterScan(scanFrom(ScanStart, text))

----------------------------------------------------------------------------
(* src/src/lib/csvLoader.ts: loadDataFromCSV after the two texts have arrived.  *)
(* The display fields (icon, color, weight, week_date) are carried along by    *)
(* the spread and are not modelled.                                           *)

\* the column names
ID == <<"i", "d">>
PRODUCT_ID == <<"p", "r", "o", "d", "u", "c", "t", "_", "i", "d">>
REFERENCE_PRICE ==
    <<"r", "e", "f", "e", "r", "e", "n", "c", "e", "_", "p", "r", "i", "c", "e">>
DISPLAY_ORDER == <<"d", "i", "s", "p", "l", "a", "y", "_", "o", "r", "d", "e", "r">>
WEEK_NUMBER == <<"w", "e", "e", "k", "_", "n", "u", "m", "b", "e", "r">>
PRICE == <<"p", "r", "i", "c", "e">>
NAME == <<"n", "a", "m", "e">>

\* the ids whose name is replaced (the keys of NAME_OVERRIDES)
NAME_OVERRIDES ==
    {<<"1", "1", "1", "0", "0", "1", "0", "3">>,
     <<"1", "1", "1", "0", "0", "1", "0", "7">>,
     <<"1", "1", "1", "0", "0", "3", "0", "1">>,
     <<"1", "1", "2", "1", "0", "1", "0", "2">>,
     <<"1", "1", "2", "1", "0", "2", "0", "1">>,
     <<"1", "1", "2", "2", "0", "1", "0", "2">>,
     <<"1", "1", "4", "2", "0", "3", "0", "3">>,
     <<"1", "1", "4", "3", "0", "0", "0", "1">>,
     <<"1", "1", "5", "1", "0", "2", "0", "3">>,
     <<"1", "1", "5", "1", "0", "2", "0", "4">>,
     <<"1", "1", "5", "2", "0", "1", "0", "1">>,
     <<"1", "1", "8", "0", "0", "1", "0", "5">>,
     <<"1", "1", "8", "0", "0", "2", "0", "2">>,
     <<"1", "1", "9", "3", "0", "2", "0", "6">>,
     <<"1", "1", "1", "0", "0", "6", "0", "4">>,
     <<"1", "1", "1", "0", "1", "3", "0", "1">>,
     <<"1", "1", "7", "4", "0", "2", "0", "1">>,
     <<"1", "1", "7", "4", "0", "3", "0", "2">>,
     <<"1", "1", "2", "1", "0", "1", "0", "7">>,
     <<"1", "1", "2", "1", "0", "2", "0", "3">>,
     <<"1", "1", "4", "2", "0", "1", "0", "5">>}

\* obj[key]: the value of a column, undefined for a column the text does not have
Undefined == [undefined |-> TRUE]
column(obj, key) == IF key \in DOMAIN obj THEN obj[key] ELSE Undefined

\* the decimal digits of a natural number
RECURSIVE NatToString(_)
NatToString(n) ==
    IF n < 10 THEN <<DigitChars[n + 1]>>
    ELSE NatToString(n \div 10) \o <<DigitChars[(n % 10) + 1]>>

\* the last k digits of a natural number, zeros included
RECURSIVE LastDigits(_, _)
LastDigits(n, k) ==
    IF k = 0 THEN <<>> ELSE LastDigits(n \div 10, k - 1) \o <<DigitChars[(n % 10) + 1]>>

\* the decimals of a denominator 10^k
RECURSIVE Decimals(_)
Decimals(d) == IF d <= 1 THEN 0 ELSE 1 + Decimals(d \div 10)

\* String(x) of a finite decimal number
NumberToString(x) ==
    LET magnitude == JsAbs(x).n
        whole == NatToString(magnitude \div x.d)
        fraction == LastDigits(magnitude % x.d, Decimals(x.d))
    IN  (IF x.n < 0 THEN <<"-">> ELSE <<>>)
            \o whole \o (IF fraction = <<>> THEN <<>> ELSE <<".">> \o fraction)

\* String(v ?? '')
StringOrEmpty(v) ==
    IF v = Undefined THEN <<>>
    ELSE IF "num" \in DOMAIN v THEN NumberToString(v.num)
    ELSE v.str

\* .replace(/^0+/, '')
RECURSIVE stripLeadingZeros(_)
stripLeadingZeros(s) ==
    IF Len(s) > 0 /\ s[1] = "0" THEN stripLeadingZeros(Tail(s)) ELSE s

\* mutant of normalizeId: leading zeros are kept
normalizeId_keep(v) == StringOrEmpty(v)

normalizeId(v) == stripLeadingZeros(StringOrEmpty(v))

\* the characters of "Infinity"
INFINITY == <<"I", "n", "f", "i", "n", "i", "t", "y">>

\* Number(s) of a string (StringToNumber): white space around the literal is
\* dropped, the empty string is 0, a sign may precede Infinity or a decimal
\* literal, which is digits with at most one dot and an optional exponent part;
\* anything else is NaN (the prefixes 0x, 0o, 0b and numeric separators are
\* not modelled: no loaded text has them)
hasSign(t) == Len(t) > 0 /\ t[1] \in {"+", "-"}
isNegative(t) == Len(t) > 0 /\ t[1] = "-"
withoutSign(t) == IF hasSign(t) THEN Tail(t) ELSE t

\* the parts of an unsigned literal before and after its first e or E
exponentMarks(body) == {k \in DOMAIN body : body[k] \in {"e", "E"}}
mantissaOf(body) ==
    IF exponentMarks(body) = {} THEN body
    ELSE SubSeq(body, 1, Min(exponentMarks(body)) - 1)
exponentOf(body) ==
    IF exponentMarks(body) = {} THEN <<>>
    ELSE SubSeq(body, Min(exponentMarks(body)) + 1, Len(body))

isMantissa(m) ==
    /\ \A k \in DOMAIN m : IsDigit(m[k]) \/ m[k] = "."
    /\ Cardinality({k \in DOMAIN m : m[k] = "."}) <= 1
    /\ \E k \in DOMAIN m : IsDigit(m[k])
isExponent(e) ==
    /\ Len(withoutSign(e)) >= 1
    /\ \A k \in DOMAIN withoutSign(e) : IsDigit(withoutSign(e)[k])
isDecimalLiteral(body) ==
    /\ isMantissa(mantissaOf(body))
    /\ exponentMarks(body) = {} \/ isExponent(exponentOf(body))

\* the digits after the dot
decimalsOf(m) ==
    IF \E k \in DOMAIN m : m[k] = "." THEN Len(m) - Max({k \in DOMAIN m : m[k] = "."})
    ELSE 0
exponentValue(e) ==
    IF isNegative(e) THEN 0 - DigitsValue(withoutSign(e)) ELSE DigitsValue(withoutSign(e))

\* digits * 10^shift
scaled(digits, shift) ==
    IF shift >= 0 THEN Num(digits * Pow10(shift), 1) ELSE Reduced(digits, Pow10(0 - shift))
decimalLiteralValue(body) ==
    scaled(DigitsValue(SelectSeq(mantissaOf(body), IsDigit)),
           exponentValue(exponentOf(body)) - decimalsOf(mantissaOf(body)))

unsignedValue(body) ==
    IF body = INFINITY THEN Infinity
    ELSE IF isDecimalLiteral(body) THEN decimalLiteralValue(body)
    ELSE NaN

StringToNumber(s) ==
    IF trim(s) = <<>> THEN Zero
    ELSE IF isNegative(trim(s)) THEN JsNeg(unsignedValue(withoutSign(trim(s))))
    ELSE unsignedValue(withoutSign(trim(s)))

\* Number(v) of a value parseCSV returns or of a missing column
ToNumber(v) ==
    IF v = Undefined THEN NaN
    ELSE IF "num" \in DOMAIN v THEN v.num
    ELSE StringToNumber(v.str)

\* Number(v) || 0: NaN and 0 are falsy
NumberOrZero(v) ==
    LET x == ToNumber(v)
    IN  IF IsNaN(x) \/ (x.n = 0 /\ x.d # 0) THEN Zero ELSE x

\* NAME_OVERRIDES[id] ?? String(p.name ?? ''): an overriding name is modelled by
\* the id it belongs to
nameOf(id, p) ==
    IF id \in NAME_OVERRIDES THEN [override |-> id] ELSE StringOrEmpty(column(p, NAME))

\* lines 188-200
toProduct(p) ==
    [id |-> normalizeId(column(p, ID)),
     name |-> nameOf(normalizeId(column(p, ID)), p),
     reference_price |-> NumberOrZero(column(p, REFERENCE_PRICE)),
     display_order |-> NumberOrZero(column(p, DISPLAY_ORDER))]

\* mutant of toPrice: the product_id keeps its leading zeros
toPrice_rawId(pr) ==
    [id |-> StringOrEmpty(column(pr, ID)),
     product_id |-> StringOrEmpty(column(pr, PRODUCT_ID)),
     week_number |-> NumberOrZero(column(pr, WEEK_NUMBER)),
     price |-> NumberOrZero(column(pr, PRICE))]

\* lines 202-209
toPrice(pr) ==
    [id |-> StringOrEmpty(column(pr, ID)),
     product_id |-> normalizeId(column(pr, PRODUCT_ID)),
     week_number |-> NumberOrZero(column(pr, WEEK_NUMBER)),
     price |-> NumberOrZero(column(pr, PRICE))]

\* mutant of sortByDisplayOrder: the order of the file is kept
sortByDisplayOrder_unsorted(items) == items

\* [...products].sort((a, b) => a.display_order - b.display_order), a stable sort
sortByDisplayOrder(items) ==
    LET before(j, i) ==
            \/ JsLt(items[j].display_order, items[i].display_order)
            \/ ~JsLt(items[i].display_order, items[j].display_order) /\ j < i
        rank(i) == 1 + Cardinality({j \in DOMAIN items : before(j, i)})
    IN  [k \in 1..Len(items) |-> items[CHOOSE i \in DOMAIN items : rank(i) = k]]

\* lines 214-217
withPrices(product, prices) ==
    [id |-> product.id,
     name |-> product.name,
     reference_price |-> product.reference_price,
     display_order |-> product.display_order,
     prices |-> SelectSeq(prices, LAMBDA pr : pr.product_id = product.id)]

\* lines 188-219
mergeProducts(productsRaw, pricesRaw) ==
    LET loaded == [k \in DOMAIN productsRaw |-> toProduct(productsRaw[k])]
        prices == [k \in DOMAIN pricesRaw |-> toPrice(pricesRaw[k])]
        productsSorted == sortByDisplayOrder(loaded)
    IN  [k \in DOMAIN productsSorted |-> withPrices(productsSorted[k], prices)]

----------------------------------------------------------------------------
(* Derived values of App (src/src/App.tsx) and KPICards (part_007) *)

\* sortArabic(a.name, b.name): names are modelled by their collation rank
sortArabic(items) == SortByKey(items, [i \in DOMAIN items |-> items[i].name])

\* mutant of getMaxWeek: the floor of 1 is left out
getMaxWeek_noFloor(items) ==
    Max(UNION {{items[i].prices[k].week_number : k \in DOMAIN items[i].prices} :
                  i \in DOMAIN items} \cup {0})

getMaxWeek(items) ==
    Max(UNION {{items[i].prices[k].week_number : k \in DOMAIN items[i].prices} :
                  i \in DOMAIN items} \cup {1})

\* mutant of AllPriceChanges: the changes are those of week 1
AllPriceChanges_weekOne(items, week) ==
    [i \in 1..Len(items) |-> calculatePriceChange(items[i], 1)]

AllPriceChanges(items, week) ==
    [i \in 1..Len(items) |-> calculatePriceChange(items[i], week)]

\* changes.reduce((m, x) => (x.percent > m.percent ? x : m), changes[0])
RECURSIVE ReduceMax(_, _, _)
ReduceMax(changes, i, m) ==
    IF i > Len(changes) THEN m
    ELSE ReduceMax(changes, i + 1,
                   IF JsGt(changes[i].percent, m.percent) THEN changes[i] ELSE m)

\* changes.reduce((min, item) => (item.percent < min.percent ? item : min), changes[0])
RECURSIVE ReduceMin(_, _, _)
ReduceMin(changes, i, m) ==
    IF i > Len(changes) THEN m
    ELSE ReduceMin(changes, i + 1,
                   IF JsLt(changes[i].percent, m.percent) THEN changes[i] ELSE m)

\* mutant of MaxIncrease: among equal percents the last one wins
RECURSIVE ReduceMaxLast(_, _, _)
ReduceMaxLast(changes, i, m) ==
    IF i > Len(changes) THEN m
    ELSE ReduceMaxLast(changes, i + 1,
                       IF JsLt(changes[i].percent, m.percent) THEN m ELSE changes[i])

MaxIncrease_lastWins(changes) ==
    IF Len(changes) = 0 THEN NoPriceChange ELSE ReduceMaxLast(changes, 1, changes[1])

MaxIncrease(changes) ==
    IF Len(changes) = 0 THEN NoPriceChange ELSE ReduceMax(changes, 1, changes[1])

MaxDecrease(changes) ==
    IF Len(changes) = 0 THEN NoPriceChange ELSE ReduceMin(changes, 1, changes[1])

getHighestIncreaseProductId(items, week) ==
    IF Len(items) = 0 THEN NULL
    ELSE LET changes == AllPriceChanges(items, week)
         IN  ReduceMax(changes, 1, changes[1]).product.id

categoryAt(product, week) ==
    getChangeCategory(calculatePriceChange(product, week).percent, DefaultThreshold)

\* mutant of matchesFilter: the 'stable' filter is not applied
matchesFilter_noStable(product, filter, week) ==
    IF filter \in {"all", "stable"} THEN TRUE ELSE categoryAt(product, week) = filter

matchesFilter(product, filter, week) ==
    IF filter = "all" THEN TRUE ELSE categoryAt(product, week) = filter

FilteredProducts(items, filter, week) ==
    SelectSeq(items, LAMBDA p : matchesFilter(p, filter, week))

\* for (const p of filteredProducts) { ... up += 1 ... down += 1 ... }
RECURSIVE CountDirections(_, _, _, _)
CountDirections(items, week, i, acc) ==
    IF i > Len(items) THEN acc
    ELSE LET cat == categoryAt(items[i], week)
         IN  CountDirections(items, week, i + 1,
                 [up   |-> IF cat = "increase" THEN acc.up + 1 ELSE acc.up,
                  down |-> IF cat = "decrease" THEN acc.down + 1 ELSE acc.down])

\* mutant of WeekDirectionCounts: whatever is not an increase counts as down
WeekDirectionCounts_else(items, week) ==
    LET c == CountDirections(items, week, 1, [up |-> 0, down |-> 0])
    IN  [up |-> c.up, down |-> Len(items) - c.up]

WeekDirectionCounts(items, week) ==
    CountDirections(items, week, 1, [up |-> 0, down |-> 0])

DisplayedProducts(list, userSelected, topId) ==
    IF userSelected \/ topId = NULL THEN list
    ELSE LET at == {i \in DOMAIN list : list[i].id = topId}
         IN  IF at = {} \/ Min(at) = 1 THEN list
             ELSE LET idx == Min(at)
                  IN  <<list[idx]>> \o SubSeq(list, 1, idx - 1)
                                    \o SubSeq(list, idx + 1, Len(list))

\* mutant of adherent: a price equal to the reference price is not adherent
adherent_strict(acc, p, week) ==
    LET price == weekPrice(p, week)
        ref == referencePrice(p)
    IN  IF ref <= 0 THEN acc
        ELSE IF price < ref THEN acc + 1 ELSE acc

\* one step of the reduce of computedAdherence
adherent(acc, p, week) ==
    LET price == weekPrice(p, week)
        ref == referencePrice(p)
    IN  IF ref <= 0 THEN acc
        ELSE IF price <= ref THEN acc + 1 ELSE acc

RECURSIVE ReduceAdherent(_, _, _, _)
ReduceAdherent(items, week, i, acc) ==
    IF i > Len(items) THEN acc
    ELSE ReduceAdherent(items, week, i + 1, adherent(acc, items[i], week))

\* App passes no adherencePercent, so the value is always computed
ComputedAdherence(items, week) ==
    IF Len(items) = 0 THEN 0
    ELSE MathRound(ReduceAdherent(items, week, 1, 0) * 100, Len(items))

\* one row of the export: the name, the week, and seven formatted numbers.  The
\* guards of the two percents are truthiness tests; a missing reference_price
\* makes the difference NaN.
exportRow(product, week) ==
    LET price == weekPrice(product, week)
        prevPrice == IF week > 1 THEN weekPrice(product, week - 1) ELSE 0
        hasRef == "reference_price" \in DOMAIN product
        ref == IF hasRef THEN Num(product.reference_price, 1) ELSE NaN
        diffRef == IF hasRef THEN Num(price - ref.n, 1) ELSE NaN
        pctRef == IF hasRef /\ ref.n # 0
                  THEN JsTimes100(JsDiv(diffRef.n, ref.n)) ELSE Zero
        diffPrev == price - prevPrice
        pctPrev == IF prevPrice # 0
                   THEN JsTimes100(JsDiv(diffPrev, prevPrice)) ELSE Zero
    IN  [name |-> product.name, week |-> week,
         weekPrice |-> toFixed(Num(price, 1), 2),
         referencePrice |-> toFixed(ref, 2),
         pctRef |-> toFixed(pctRef, 1),
         diffRef |-> toFixed(diffRef, 2),
         prevPrice |-> toFixed(Num(prevPrice, 1), 2),
         pctPrev |-> toFixed(pctPrev, 1),
         diffPrev |-> toFixed(Num(diffPrev, 1), 2)]

\* filteredProducts.map((product) => ...)
exportRows(items, week) == [i \in 1..Len(items) |-> exportRow(items[i], week)]

\* a render: every derived value is recomputed from the new state
Render ==
    /\ filteredProducts' = FilteredProducts(products', filterType', currentWeek')
    /\ weekDirectionCounts' = WeekDirectionCounts(filteredProducts', currentWeek')
    /\ displayedProducts' =
           DisplayedProducts(filteredProducts', hasUserSelected', initialTopId')
    /\ allPriceChanges' = AllPriceChanges(products', currentWeek')
    /\ maxIncrease' = MaxIncrease(allPriceChanges')
    /\ maxDecrease' = MaxDecrease(allPriceChanges')
    /\ computedAdherence' = ComputedAdherence(products', currentWeek')

----------------------------------------------------------------------------
(* Inputs *)

\* a scanned text has at most MaxText characters
MaxText == 5
\* a coerced field has at most MaxValue characters
MaxValue == 4
\* a loaded table has at most MaxRows data rows
MaxRows == 2

SeqsUpTo(S, n) == UNION {[1..k -> S] : k \in 0..n}

Obs(week, price) == [week_number |-> week, price |-> price]

PriceValues == {8, 10, 12}
\* a reference price is negative, zero, positive or missing
RefValues == {-10, 0, 10}

\* the products a pure function is evaluated on: every list of at most MaxObs
\* observations, in any order, repeated weeks included
Observations == {Obs(w, v) : w \in 1..MaxWeek, v \in PriceValues}
ProductOf(ref, prices) ==
    [id |-> "11100103", name |-> 1, display_order |-> 1,
     reference_price |-> ref, prices |-> prices]
ProductNoRef(prices) ==
    [id |-> "11100103", name |-> 1, display_order |-> 1, prices |-> prices]
EvaluatedProducts ==
    {ProductOf(r, ps) : r \in RefValues, ps \in SeqsUpTo(Observations, MaxObs)}
        \cup {ProductNoRef(ps) : ps \in SeqsUpTo(Observations, MaxObs)}

\* percents and thresholds a classification is evaluated on: the non-finite numbers,
\* the integers -2..2 and the multiples -0.0002..0.0002 of the default threshold
PctValues ==
    {NaN, Infinity, NegInfinity}
        \cup {Num(n, d) : n \in -2..2, d \in {1, ThresholdDenominator}}
ThresholdValues == {Zero, DefaultThreshold, Num(1, 1)}

EvaluateArgs ==
    {[kind |-> "evaluate", product |-> p, week |-> w] :
        p \in EvaluatedProducts, w \in 1..MaxWeek}
ClassifyArgs ==
    {[kind |-> "classify", pct |-> x, threshold |-> t] :
        x \in PctValues, t \in ThresholdValues}

\* the products a card is rendered for: prices may be zero or negative, which
\* the loader lets through (Number(pr.price) || 0)
CardPriceValues == {-8, 0, 8}
CardObservations == {Obs(w, v) : w \in 1..MaxWeek, v \in CardPriceValues}
CardArgs ==
    {[kind |-> "card", product |-> ProductOf(r, ps), week |-> w] :
        r \in RefValues, ps \in SeqsUpTo(CardObservations, MaxObs), w \in 1..MaxWeek}

\* the texts the scanner is run on: every text of the characters that steer it
ScanAlphabet == {QUOTE, COMMA, LF, CR, SPACE, "a"}
ScanArgs == {[kind |-> "scan", csvText |-> t] : t \in SeqsUpTo(ScanAlphabet, MaxText)}

\* the fields the coercion is run on: the first field of the only data row under
\* the header a,b; the second field keeps the row and its end in place
ValueAlphabet == {"0", "1", "-", ".", "a", SPACE}
CoerceArgs ==
    {[kind |-> "coerce", value |-> v,
      csvText |-> <<"a", COMMA, "b", LF>> \o v \o <<COMMA, "b">>] :
        v \in SeqsUpTo(ValueAlphabet, MaxValue)}

\* RFC 4180 text of a table: a field with a quote, a comma or a line break is
\* enclosed in quotes with its quotes doubled, fields are joined by commas and
\* records by CRLF
RECURSIVE doubleQuotes(_)
doubleQuotes(f) ==
    IF Len(f) = 0 THEN f
    ELSE (IF f[1] = QUOTE THEN <<QUOTE, QUOTE>> ELSE <<f[1]>>) \o doubleQuotes(Tail(f))
escapeField(f) ==
    IF \E k \in DOMAIN f : f[k] \in {QUOTE, COMMA, LF, CR}
    THEN <<QUOTE>> \o doubleQuotes(f) \o <<QUOTE>>
    ELSE f
RECURSIVE joinWith(_, _)
joinWith(parts, sep) ==
    IF Len(parts) = 0 THEN <<>>
    ELSE IF Len(parts) = 1 THEN parts[1]
    ELSE parts[1] \o sep \o joinWith(Tail(parts), sep)
toCSV(table) ==
    joinWith([r \in DOMAIN table |->
                 joinWith([c \in DOMAIN table[r] |-> escapeField(table[r][c])], <<COMMA>>)],
             <<CR, LF>>)

\* the tables of the round trip: the header a,b and one data row of two fields
TableHeader == <<<<"a">>, <<"b">>>>
TableFields ==
    {<<>>, <<"b">>, <<"a", COMMA, "b">>, <<"a", QUOTE, "b">>, <<"a", LF, "b">>,
     <<QUOTE>>, <<SPACE, "b">>, <<"1">>, <<"0", "1">>}
RoundTripArgs ==
    {[kind |-> "roundTrip", table |-> <<TableHeader, <<f, g>>>>,
      csvText |-> toCSV(<<TableHeader, <<f, g>>>>)] : f, g \in TableFields}

\* the two texts of a load: products.csv with the columns id and display_order,
\* weekly_prices.csv with product_id, week_number and price; ids with and without
\* leading zeros, equal and different display orders, the r-th price row is of
\* week r
ProductIdFields == {<<"0", "1", "1">>, <<"1", "1">>, <<"7">>}
DisplayOrderFields == {<<"1">>, <<"2">>}
PriceIdFields == {<<"0", "1", "1">>, <<"1", "1">>, <<"5">>}
ProductsTables ==
    {<<<<ID, DISPLAY_ORDER>>>> \o body :
        body \in SeqsUpTo({<<i, o>> : i \in ProductIdFields, o \in DisplayOrderFields},
                          MaxRows)}
PricesTables ==
    {<<<<PRODUCT_ID, WEEK_NUMBER, PRICE>>>>
        \o [r \in DOMAIN ids |-> <<ids[r], NatToString(r), <<"1", "0">>>>] :
        ids \in SeqsUpTo(PriceIdFields, MaxRows)}
LoadArgs ==
    {[kind |-> "load", productsTable |-> pt, pricesTable |-> wt,
      productsText |-> toCSV(pt), pricesText |-> toCSV(wt)] :
        pt \in ProductsTables, wt \in PricesTables}

\* the cells a numeric column is loaded from: empty, a word, whole numbers with
\* and without leading zeros, a fraction, a negative number, zero and Infinity
NumericCells ==
    {<<>>, <<"a">>, <<"1", "2">>, <<"0", "1", "2">>, <<"1", ".", "5">>, <<"-", "3">>,
     <<"0">>, INFINITY}

\* the two texts of a load whose numeric columns hold these cells: one product
\* row and one price row of product 7, and the two texts without numeric columns
CellArgs ==
    {[kind |-> "cells", cells |-> <<c, e>>,
      productsText |-> toCSV(<<<<ID, REFERENCE_PRICE, DISPLAY_ORDER>>, <<<<"7">>, c, e>>>>),
      pricesText |-> toCSV(<<<<PRODUCT_ID, WEEK_NUMBER, PRICE>>, <<<<"7">>, e, c>>>>)] :
        c, e \in NumericCells}
        \cup {[kind |-> "cells", cells |-> <<>>,
                productsText |-> toCSV(<<<<ID>>, <<<<"7">>>>>>),
                pricesText |-> toCSV(<<<<PRODUCT_ID>>, <<<<"7">>>>>>)]}

\* the files of a whole load.  products.csv has the columns id, name,
\* reference_price and display_order: no row; the product 007; the products 011
\* and 11 in descending display order; the products 7 and 5
TEST == <<"T", "e", "s", "t">>
ProductsHeader == <<ID, NAME, REFERENCE_PRICE, DISPLAY_ORDER>>
ProductsFiles ==
    {<<ProductsHeader>>,
     <<ProductsHeader, <<<<"0", "0", "7">>, TEST, <<"1", "0">>, <<"1">>>>>>,
     <<ProductsHeader, <<<<"0", "1", "1">>, <<"b">>, <<"1", "0">>, <<"2">>>>,
                       <<<<"1", "1">>, <<"a">>, <<"1", "0">>, <<"1">>>>>>,
     <<ProductsHeader, <<<<"7">>, <<"a">>, <<"1", "0">>, <<"1">>>>,
                       <<<<"5">>, <<"b">>, <<"0">>, <<"2">>>>>>}

\* weekly_prices.csv has the columns product_id, week_number and price: no row;
\* one price of 007; two prices of product 11 for week 1 and one for week 2; a
\* price of product 7 whose week is not a number; prices of 7 and 5 for two weeks
PricesHeader == <<PRODUCT_ID, WEEK_NUMBER, PRICE>>
PricesFiles ==
    {<<PricesHeader>>,
     <<PricesHeader, <<<<"0", "0", "7">>, <<"1">>, <<"1", "2">>>>>>,
     <<PricesHeader, <<<<"1", "1">>, <<"1">>, <<"1", "2">>>>,
                     <<<<"0", "1", "1">>, <<"1">>, <<"8">>>>,
                     <<<<"1", "1">>, <<"2">>, <<"1", "0">>>>>>,
     <<PricesHeader, <<<<"7">>, <<"x">>, <<"1", "0">>>>>>,
     <<PricesHeader, <<<<"7">>, <<"1">>, <<"8">>>>,
                     <<<<"7">>, <<"2">>, <<"1", "2">>>>,
                     <<<<"5">>, <<"2">>, <<"1", "0">>>>>>}

FetchArgs ==
    {[kind |-> "fetch", productsTable |-> pt, pricesTable |-> wt,
      productsText |-> toCSV(pt), pricesText |-> toCSV(wt)] :
        pt \in ProductsFiles, wt \in PricesFiles}

\* how a fetch settles: a response with an OK status, a response with another
\* status, or a rejection
ResponseOutcomes == {"ok", "notOk", "rejected"}

\* what loadDataFromCSV resolves with: at most MaxProducts products in ascending
\* display_order, each with a numeric reference price and its observations
Ids == <<"11100103", "11100107", "11100301", "11210102">>
LoadedPriceLists ==
    {<<>>, <<Obs(1, 10)>>, <<Obs(1, 12), Obs(2, 8)>>, <<Obs(2, 10), Obs(1, 8)>>}
LoadedProduct(i, ref, prices) ==
    [id |-> Ids[i], name |-> (i * 3) % 5, display_order |-> (i + 1) \div 2,
     reference_price |-> ref, prices |-> prices]
LoadedData ==
    UNION {{[i \in 1..n |-> LoadedProduct(i, f[i][1], f[i][2])] :
                f \in [1..n -> RefValues \X LoadedPriceLists]} : n \in 0..MaxProducts}

\* the bundled sample dataset (src/data/sampleProducts is not among the sources)
sampleProducts ==
    <<[id |-> "s1", name |-> 2, display_order |-> 1, reference_price |-> 10,
       prices |-> <<Obs(1, 10), Obs(2, 12)>>],
      [id |-> "s2", name |-> 1, display_order |-> 2, reference_price |-> 10,
       prices |-> <<Obs(1, 8), Obs(2, 10)>>]>>

FilterTypes == {"all", "increase", "decrease", "stable"}

----------------------------------------------------------------------------
(* The application: src/src/App.tsx *)

AppInit ==
    /\ products = <<>>
    /\ selectedId = NULL
    /\ loading = TRUE
    /\ filterType = "all"
    /\ currentWeek = 1
    /\ maxWeek = 1
    /\ usingSampleData = FALSE
    /\ initialTopId = NULL
    /\ hasUserSelected = FALSE
    /\ filteredProducts = FilteredProducts(products, filterType, currentWeek)
    /\ weekDirectionCounts = WeekDirectionCounts(filteredProducts, currentWeek)
    /\ displayedProducts =
           DisplayedProducts(filteredProducts, hasUserSelected, initialTopId)
    /\ allPriceChanges = AllPriceChanges(products, currentWeek)
    /\ maxIncrease = MaxIncrease(allPriceChanges)
    /\ maxDecrease = MaxDecrease(allPriceChanges)
    /\ computedAdherence = ComputedAdherence(products, currentWeek)
    /\ rows = <<>>

\* nothing evaluated yet
NoResult ==
    [done |-> {}, priceChange |-> NoPriceChange, latestPrice |-> 0, category |-> "none",
     card |-> [null |-> TRUE]]

\* the state before the first load settles; no function is under evaluation
Init ==
    /\ AppInit
    /\ arg = [kind |-> "none"]
    /\ ret = NoResult

\* mutant of filterAfterSelection: the filter is never reset
filterAfterSelection_keep(id) == filterType

\* useEffect(.., [selectedId]): a change of selectedId to a product resets the filter
filterAfterSelection(id) ==
    IF id # selectedId /\ id # NULL THEN "all" ELSE filterType

\* the body of loadData's try block and of useSampleData: show the items
show(items, sample) ==
    LET sorted == sortArabic(items)
        mw == getMaxWeek(sorted)
        defId == getHighestIncreaseProductId(sorted, mw)
    IN  /\ products' = sorted
        /\ maxWeek' = mw
        /\ currentWeek' = mw
        /\ selectedId' = defId
        /\ initialTopId' = defId
        /\ hasUserSelected' = FALSE
        /\ usingSampleData' = sample
        /\ filterType' = filterAfterSelection(defId)

useSampleData == show(sampleProducts, TRUE)

\* loadData when loadDataFromCSV resolves with data: empty data is thrown and caught
loadDataResolved ==
    \E data \in LoadedData :
        /\ loading
        /\ IF Len(data) = 0 THEN useSampleData ELSE show(data, FALSE)
        /\ loading' = FALSE
        /\ Render
        /\ rows' = <<>>
        /\ UNCHANGED callVars

\* loadData when loadDataFromCSV rejects
loadDataRejected ==
    /\ loading
    /\ useSampleData
    /\ loading' = FALSE
    /\ Render
    /\ rows' = <<>>
    /\ UNCHANGED callVars

\* the product dropdown (a product or "all") and a click on a displayed card
selectProduct ==
    \E id \in {products[i].id : i \in DOMAIN products} \cup {NULL} :
        /\ ~loading
        /\ hasUserSelected' = TRUE
        /\ selectedId' = id
        /\ filterType' = filterAfterSelection(id)
        /\ UNCHANGED <<products, loading, currentWeek, maxWeek, usingSampleData,
                       initialTopId>>
        /\ Render
        /\ rows' = <<>>
        /\ UNCHANGED callVars

\* the category filter, disabled while a product is selected
setFilterType ==
    \E f \in FilterTypes :
        /\ ~loading
        /\ selectedId = NULL
        /\ filterType' = f
        /\ UNCHANGED <<products, selectedId, loading, currentWeek, maxWeek,
                       usingSampleData, initialTopId, hasUserSelected>>
        /\ Render
        /\ rows' = <<>>
        /\ UNCHANGED callVars

\* the week selector offers weekOptions: 1..maxWeek
setCurrentWeek ==
    \E w \in 1..maxWeek :
        /\ ~loading
        /\ currentWeek' = w
        /\ UNCHANGED <<products, selectedId, loading, filterType, maxWeek,
                       usingSampleData, initialTopId, hasUserSelected>>
        /\ Render
        /\ rows' = <<>>
        /\ UNCHANGED callVars

\* the export button: the rows are built from the filtered collection at the
\* current week and written to the sheet; the application state is left alone.
\* The rows are local to the call: the next step of the application forgets them.
exportToExcel ==
    /\ ~loading
    /\ rows' = exportRows(filteredProducts, currentWeek)
    /\ UNCHANGED <<appVars, viewVars, callVars>>

Next ==
    \/ exportToExcel
    \/ loadDataResolved
    \/ loadDataRejected
    \/ selectProduct
    \/ setFilterType
    \/ setCurrentWeek

Spec == Init /\ [][Next]_vars

----------------------------------------------------------------------------
(* One evaluation of a pure function of the pipeline *)

InitCalc ==
    /\ AppInit
    /\ arg \in EvaluateArgs \cup ClassifyArgs \cup CardArgs
    /\ ret = NoResult

evalCalculatePriceChange ==
    /\ arg.kind = "evaluate"
    /\ ret' = [ret EXCEPT !.done = @ \cup {"calculatePriceChange"},
                          !.priceChange = calculatePriceChange(arg.product, arg.week)]
    /\ UNCHANGED <<arg, appVars, viewVars, exportVars>>

evalGetLatestPriceUpToWeek ==
    /\ arg.kind = "evaluate"
    /\ ret' = [ret EXCEPT !.done = @ \cup {"getLatestPriceUpToWeek"},
                          !.latestPrice = getLatestPriceUpToWeek(arg.product, arg.week)]
    /\ UNCHANGED <<arg, appVars, viewVars, exportVars>>

evalGetChangeCategory ==
    /\ arg.kind = "classify"
    /\ ret' = [ret EXCEPT !.done = @ \cup {"getChangeCategory"},
                          !.category = getChangeCategory(arg.pct, arg.threshold)]
    /\ UNCHANGED <<arg, appVars, viewVars, exportVars>>

renderProductCard ==
    /\ arg.kind = "card"
    /\ ret' = [ret EXCEPT !.done = @ \cup {"ProductCard"},
                          !.card = ProductCard(arg.product, arg.week)]
    /\ UNCHANGED <<arg, appVars, viewVars, exportVars>>

NextCalc ==
    \/ renderProductCard
    \/ evalCalculatePriceChange
    \/ evalGetLatestPriceUpToWeek
    \/ evalGetChangeCategory

SpecCalc == InitCalc /\ [][NextCalc]_vars

----------------------------------------------------------------------------
(* One call of parseCSV: ret holds its position, the scanned text, the locals *)
(* of the scanner and the returned records                                   *)

InitCsv ==
    /\ AppInit
    /\ arg \in ScanArgs \cup CoerceArgs \cup RoundTripArgs
    /\ ret = [pc |-> "start", text |-> <<>>, scan |-> ScanStart, data |-> <<>>]

\* lines 65-71: an empty text returns at once
parseCSVStart ==
    /\ ret.pc = "start"
    /\ LET text == normalizedText(arg.csvText)
       IN  ret' = [ret EXCEPT !.text = text,
                              !.pc = IF text = <<>> THEN "done" ELSE "scan"]
    /\ UNCHANGED <<arg, appVars, viewVars, exportVars>>

\* one iteration of the loop
parseCSVScan ==
    /\ ret.pc = "scan"
    /\ ret.scan.i <= Len(ret.text)
    /\ ret' = [ret EXCEPT !.scan = scanChar(ret.scan, ret.text)]
    /\ UNCHANGED <<arg, appVars, viewVars, exportVars>>

\* the loop is over: the last field and row are pushed, the records are returned
parseCSVReturn ==
    /\ ret.pc = "scan"
    /\ ret.scan.i > Len(ret.text)
    /\ ret' = [ret EXCEPT !.scan = pushRow(pushField(ret.scan)),
                          !.data = afterScan(ret.scan),
                          !.pc = "done"]
    /\ UNCHANGED <<arg, appVars, viewVars, exportVars>>

NextCsv ==
    \/ parseCSVStart
    \/ parseCSVScan
    \/ parseCSVReturn

SpecCsv == InitCsv /\ [][NextCsv]_vars

----------------------------------------------------------------------------
(* One call of loadDataFromCSV whose two fetches have delivered their texts *)

InitLoad ==
    /\ AppInit
    /\ arg \in LoadArgs
    /\ ret = [pc |-> "fetched", productsRaw |-> <<>>, pricesRaw |-> <<>>,
              productsWithPrices |-> <<>>]

\* lines 185-186
loadDataFromCSVParse ==
    /\ ret.pc = "fetched"
    /\ ret' = [ret EXCEPT !.productsRaw = parseCSV(arg.productsText),
                          !.pricesRaw = parseCSV(arg.pricesText),
                          !.pc = "parsed"]
    /\ UNCHANGED <<arg, appVars, viewVars, exportVars>>

\* lines 188-219
loadDataFromCSVReturn ==
    /\ ret.pc = "parsed"
    /\ ret' = [ret EXCEPT !.productsWithPrices =
                              mergeProducts(ret.productsRaw, ret.pricesRaw),
                          !.pc = "returned"]
    /\ UNCHANGED <<arg, appVars, viewVars, exportVars>>

NextLoad ==
    \/ loadDataFromCSVParse
    \/ loadDataFromCSVReturn

SpecLoad == InitLoad /\ [][NextLoad]_vars

\* the same call on the texts of CellArgs
InitCells ==
    /\ AppInit
    /\ arg \in CellArgs
    /\ ret = [pc |-> "fetched", productsRaw |-> <<>>, pricesRaw |-> <<>>,
              productsWithPrices |-> <<>>]

SpecCells == InitCells /\ [][NextLoad]_vars

----------------------------------------------------------------------------
(* The whole load: the two fetches, loadDataFromCSV, loadData of App, and the *)
(* application afterwards.  ret holds the frame of loadDataFromCSV.           *)

InitLoadData ==
    /\ AppInit
    /\ arg \in FetchArgs
    /\ ret = [pc |-> "fetching", productsResponse |-> "pending",
              pricesResponse |-> "pending", productsRaw |-> <<>>, pricesRaw |-> <<>>,
              productsWithPrices |-> <<>>]

\* fetch(products.csv) settles
fetchProductsSettles ==
    \E outcome \in ResponseOutcomes :
        /\ ret.productsResponse = "pending"
        /\ ret' = [ret EXCEPT !.productsResponse = outcome]
        /\ UNCHANGED <<arg, appVars, viewVars, exportVars>>

\* fetch(weekly_prices.csv) settles
fetchPricesSettles ==
    \E outcome \in ResponseOutcomes :
        /\ ret.pricesResponse = "pending"
        /\ ret' = [ret EXCEPT !.pricesResponse = outcome]
        /\ UNCHANGED <<arg, appVars, viewVars, exportVars>>

\* mutant of awaitResponses: only the status of the products response is tested
awaitResponses_productsOnly(productsResponse, pricesResponse) ==
    IF "rejected" \in {productsResponse, pricesResponse} THEN "rejected"
    ELSE IF "pending" \in {productsResponse, pricesResponse} THEN "fetching"
    ELSE IF productsResponse # "ok" THEN "rejected"
    ELSE "fetched"

\* where await Promise.all([..]) and the test of the two statuses leave the
\* call: Promise.all rejects as soon as one fetch rejects and fulfils when both
\* have; a status that is not OK is thrown; the catch block rethrows
awaitResponses(productsResponse, pricesResponse) ==
    IF "rejected" \in {productsResponse, pricesResponse} THEN "rejected"
    ELSE IF "pending" \in {productsResponse, pricesResponse} THEN "fetching"
    ELSE IF productsResponse # "ok" \/ pricesResponse # "ok" THEN "rejected"
    ELSE "fetched"

\* lines 171-183: the call resumes after the await; the texts of two OK
\* responses are read
loadDataFromCSVAwait ==
    /\ ret.pc = "fetching"
    /\ awaitResponses(ret.productsResponse, ret.pricesResponse) # "fetching"
    /\ ret' = [ret EXCEPT !.pc = awaitResponses(ret.productsResponse, ret.pricesResponse)]
    /\ UNCHANGED <<arg, appVars, viewVars, exportVars>>

\* the application's picture of a loaded value: an id and a name are texts, a
\* name is compared by its collation rank, the numbers of the files are whole
IdTexts == {<<<<"5">>, "5">>, <<<<"7">>, "7">>, <<<<"1", "1">>, "11">>}
idText(id) == (CHOOSE e \in IdTexts : e[1] = id)[2]
NamesInOrder == <<<<>>, <<"a">>, <<"b">>, TEST>>
collationRank(name) == CHOOSE k \in DOMAIN NamesInOrder : NamesInOrder[k] = name
asInteger(x) == x.n \div x.d
received(data) ==
    [i \in DOMAIN data |->
        [id |-> idText(data[i].id),
         name |-> collationRank(data[i].name),
         display_order |-> asInteger(data[i].display_order),
         reference_price |-> asInteger(data[i].reference_price),
         prices |-> [k \in DOMAIN data[i].prices |->
                        Obs(asInteger(data[i].prices[k].week_number),
                            asInteger(data[i].prices[k].price))]]]

\* mutant of resolvedWithData: an empty list counts as data
resolvedWithData_any(frame) == frame.pc = "returned"

\* const data = await loadDataFromCSV(); if (!data || data.length === 0) throw ..
resolvedWithData(frame) == frame.pc = "returned" /\ Len(frame.productsWithPrices) # 0

\* loadData after loadDataFromCSV has settled: the try block, the catch block
\* and the finally block
loadDataSettled ==
    /\ loading
    /\ ret.pc \in {"returned", "rejected"}
    /\ IF resolvedWithData(ret)
       THEN show(received(ret.productsWithPrices), FALSE)
       ELSE useSampleData
    /\ loading' = FALSE
    /\ Render
    /\ rows' = <<>>
    /\ UNCHANGED callVars

NextLoadData ==
    \/ fetchProductsSettles
    \/ fetchPricesSettles
    \/ loadDataFromCSVAwait
    \/ loadDataFromCSVParse
    \/ loadDataFromCSVReturn
    \/ loadDataSettled
    \/ exportToExcel
    \/ selectProduct
    \/ setFilterType
    \/ setCurrentWeek

\* what a step of loadDataSettled is seen by: loading is on, the call has settled
\* and the finally block turns loading off; no other step turns it off
loadDataEnds ==
    /\ loading
    /\ ret.pc \in {"returned", "rejected"}
    /\ loading' = FALSE

\* the continuation of an await runs once its promise has settled: the call
\* resumes after the two fetches, and loadData resumes after the call.  A fetch
\* need not settle.
SpecLoadData ==
    /\ InitLoadData
    /\ [][NextLoadData]_vars
    /\ WF_vars(loadDataFromCSVAwait)
    /\ WF_loading(loadDataEnds)

----------------------------------------------------------------------------
(* What the claims say, in the claims' own terms *)

HasReference(p) == "reference_price" \in DOMAIN p
PositiveReference(p) == HasReference(p) /\ p.reference_price > 0

\* the observations of p for exactly week w, and those at or before w
ObservedAt(p, w) == {i \in DOMAIN p.prices : p.prices[i].week_number = w}
ObservedUpTo(p, w) == {i \in DOMAIN p.prices : p.prices[i].week_number <= w}

\* the first observation for exactly week w decides the exact-match price
ExactPrice(p, w) ==
    IF ObservedAt(p, w) = {} THEN 0
    ELSE p.prices[CHOOSE i \in ObservedAt(p, w) : \A j \in ObservedAt(p, w) : i <= j].price

\* (weekPrice - reference_price) / reference_price * 100, or 0 without a positive reference
ExpectedPercent(p, w) ==
    IF PositiveReference(p)
    THEN Num((ExactPrice(p, w) - p.reference_price) * 100, p.reference_price)
    ELSE Zero

\* the exact-match price that a PriceChange of product p reports: change + reference
ReportedPrice(pc, p) ==
    pc.change + (IF HasReference(p) THEN p.reference_price ELSE 0)

Evaluated(fn) == fn \in ret.done

----------------------------------------------------------------------------
(* C1 - C5: the price-change engine, checked under SpecCalc *)

\* C1: the percent versus reference computed by calculatePriceChange is
\* (weekPrice - reference_price) / reference_price * 100 when reference_price > 0
\* and exactly 0 when reference_price is zero, negative or missing, whatever the
\* week price is; it is never NaN or infinite.
C1_PercentVsReference ==
    Evaluated("calculatePriceChange") =>
        LET p == arg.product
            pct == ret.priceChange.percent
        IN  /\ IsFinite(pct)
            /\ PositiveReference(p) =>
                   \E i \in (IF ObservedAt(p, arg.week) = {} THEN {0}
                             ELSE {p.prices[k].price : k \in ObservedAt(p, arg.week)}) :
                       pct.n * p.reference_price
                           = (i - p.reference_price) * 100 * pct.d
            /\ ~PositiveReference(p) => pct.n = 0

\* a product with reference price 0 and week price 10 has been evaluated to 0 percent
C1_Witness ==
    /\ Evaluated("calculatePriceChange")
    /\ HasReference(arg.product) /\ arg.product.reference_price = 0
    /\ ObservedAt(arg.product, arg.week) # {}
    /\ ret.priceChange.change = 10
    /\ ret.priceChange.percent = Zero

\* C2: the primary week-price lookup returns the price of the observation whose
\* week_number equals the requested week, and 0 when the product has no observation
\* for that exact week, even if earlier or later weeks have observations.
C2_ExactWeekPrice ==
    Evaluated("calculatePriceChange") =>
        LET p == arg.product
            price == ReportedPrice(ret.priceChange, p)
        IN  IF ObservedAt(p, arg.week) = {}
            THEN price = 0
            ELSE \E i \in ObservedAt(p, arg.week) : price = p.prices[i].price

\* observations before and after the week, none for the week: the price is 0
C2_Witness ==
    /\ Evaluated("calculatePriceChange")
    /\ ObservedAt(arg.product, arg.week) = {}
    /\ \E i, j \in DOMAIN arg.product.prices :
           /\ arg.product.prices[i].week_number < arg.week
           /\ arg.product.prices[j].week_number > arg.week
    /\ ReportedPrice(ret.priceChange, arg.product) = 0

\* C3: getLatestPriceUpToWeek returns the price of the observation with the greatest
\* week_number that is <= week, and 0 when the product has no observation at or
\* before that week (an empty price list included); observations with
\* week_number > week never influence the result.
C3_LatestPriceUpToWeek ==
    Evaluated("getLatestPriceUpToWeek") =>
        LET p == arg.product
            upTo == ObservedUpTo(p, arg.week)
        IN  IF upTo = {}
            THEN ret.latestPrice = 0
            ELSE \E i \in upTo :
                    /\ \A j \in upTo : p.prices[j].week_number <= p.prices[i].week_number
                    /\ ret.latestPrice = p.prices[i].price

\* an earlier and a later observation, listed earliest first, and one after the week
C3_Witness ==
    /\ Evaluated("getLatestPriceUpToWeek")
    /\ Len(arg.product.prices) = 2
    /\ arg.product.prices[1].week_number < arg.product.prices[2].week_number
    /\ arg.product.prices[2].week_number <= arg.week
    /\ arg.product.prices[1].price # arg.product.prices[2].price
    /\ ret.latestPrice = arg.product.prices[2].price

\* C4: when an observation for exactly the week exists, the exact-match price and
\* getLatestPriceUpToWeek return the same price; when none exists for the week
\* but one exists for an earlier week, the exact-match lookup returns 0 while
\* getLatestPriceUpToWeek returns the price of the latest earlier week.
C4_TwoLookupPolicies ==
    (Evaluated("calculatePriceChange") /\ Evaluated("getLatestPriceUpToWeek")) =>
        LET p == arg.product
            exact == ReportedPrice(ret.priceChange, p)
            upTo == ObservedUpTo(p, arg.week)
        IN  /\ ObservedAt(p, arg.week) # {} => exact = ret.latestPrice
            /\ (ObservedAt(p, arg.week) = {} /\ upTo # {}) =>
                   /\ exact = 0
                   /\ \E i \in upTo :
                        /\ \A j \in upTo :
                               p.prices[j].week_number <= p.prices[i].week_number
                        /\ ret.latestPrice = p.prices[i].price

\* observations at weeks 1 and 3, week 2 asked: 0 against the week-1 price
C4_Witness ==
    /\ Evaluated("calculatePriceChange") /\ Evaluated("getLatestPriceUpToWeek")
    /\ arg.week = 2
    /\ {arg.product.prices[i].week_number : i \in DOMAIN arg.product.prices} = {1, 3}
    /\ ReportedPrice(ret.priceChange, arg.product) = 0
    /\ ret.latestPrice # 0
    /\ \E i \in DOMAIN arg.product.prices :
           /\ arg.product.prices[i].week_number = 1
           /\ ret.latestPrice = arg.product.prices[i].price

\* C5: getChangeCategory(pct, threshold) returns 'increase' exactly when
\* pct > threshold, 'decrease' exactly when pct < -threshold, and 'stable' otherwise
\* (pct equal to +threshold or -threshold is 'stable'); every percent maps to
\* exactly one of the three categories.
C5_ChangeCategory ==
    Evaluated("getChangeCategory") =>
        LET above == JsGt(arg.pct, arg.threshold)
            below == JsLt(arg.pct, JsNeg(arg.threshold))
        IN  /\ ret.category \in {"increase", "decrease", "stable"}
            /\ (ret.category = "increase") <=> above
            /\ (ret.category = "decrease") <=> below
            /\ (ret.category = "stable") <=> (~above /\ ~below)

\* a percent equal to the default threshold has been classified stable
C5_Witness ==
    /\ Evaluated("getChangeCategory")
    /\ arg.threshold = DefaultThreshold
    /\ arg.pct = DefaultThreshold
    /\ ret.category = "stable"

----------------------------------------------------------------------------
(* C6 - C10: aggregation and ranking, checked under Spec *)

\* equality of two finite numbers
SameNumber(x, y) == IsFinite(x) /\ IsFinite(y) /\ x.n * y.d = y.n * x.d

\* the category of product p at week w under the default threshold
ExpectedCategory(p, w) ==
    IF JsGt(ExpectedPercent(p, w), DefaultThreshold) THEN "increase"
    ELSE IF JsLt(ExpectedPercent(p, w), JsNeg(DefaultThreshold)) THEN "decrease"
    ELSE "stable"

\* the percent of the i-th product at the current week
PercentOf(i) == ExpectedPercent(products[i], currentWeek)

\* C6: for a non-empty product collection at a fixed week, maxIncrease is an entry
\* whose percent is >= the percent of every product and maxDecrease is an entry
\* whose percent is <= the percent of every product; when several products share
\* the extremal percent, the first in input order is returned.  For an empty
\* collection both are null.
C6_MaxIncreaseMaxDecrease ==
    IF Len(products) = 0
    THEN maxIncrease = NoPriceChange /\ maxDecrease = NoPriceChange
    ELSE /\ \E i \in DOMAIN products :
              /\ maxIncrease.product = products[i]
              /\ SameNumber(maxIncrease.percent, PercentOf(i))
              /\ \A j \in DOMAIN products : ~JsGt(PercentOf(j), PercentOf(i))
              /\ \A j \in 1..(i - 1) : JsLt(PercentOf(j), PercentOf(i))
         /\ \E i \in DOMAIN products :
              /\ maxDecrease.product = products[i]
              /\ SameNumber(maxDecrease.percent, PercentOf(i))
              /\ \A j \in DOMAIN products : ~JsLt(PercentOf(j), PercentOf(i))
              /\ \A j \in 1..(i - 1) : JsGt(PercentOf(j), PercentOf(i))

\* two products share the greatest percent, a rise, and the first of them is returned
C6_Witness ==
    /\ ~loading
    /\ Len(products) >= 2
    /\ JsGt(PercentOf(1), Zero)
    /\ SameNumber(PercentOf(1), PercentOf(2))
    /\ \A j \in DOMAIN products : ~JsGt(PercentOf(j), PercentOf(1))
    /\ maxIncrease.product = products[1]

\* the products with a positive reference price, and the adherent ones among them
Benchmarked == {i \in DOMAIN products : PositiveReference(products[i])}
Adherent ==
    {i \in Benchmarked :
        ExactPrice(products[i], currentWeek) <= products[i].reference_price}

\* round(100 * a / d) for d > 0
RoundedShare(a, d) == (200 * a + d) \div (2 * d)

\* C7: adherencePercent excludes products whose reference_price is non-positive from
\* both the numerator and the denominator: the result is round(100 * A / D), D the
\* number of products with reference_price > 0 and A the number of those whose
\* exact-match week price is <= reference_price.
C7_AdherenceExcludesNoReference ==
    Benchmarked # {} =>
        computedAdherence = RoundedShare(Cardinality(Adherent), Cardinality(Benchmarked))

Kept ==
    {i \in DOMAIN products :
        filterType = "all" \/ ExpectedCategory(products[i], currentWeek) = filterType}

\* C9: the filtered collection keeps exactly the products whose category at the
\* current week equals the selected category, in their original relative order;
\* with filter 'all' it equals the full product collection.
C9_FilterByCategory ==
    /\ Len(filteredProducts) = Cardinality(Kept)
    /\ \A k \in 1..Len(filteredProducts) :
           filteredProducts[k] =
               products[CHOOSE i \in Kept : Cardinality({j \in Kept : j <= i}) = k]
    /\ filterType = "all" => filteredProducts = products

\* the 'stable' filter keeps some products and drops others
C9_Witness ==
    /\ filterType = "stable"
    /\ Len(filteredProducts) > 0
    /\ Len(filteredProducts) < Len(products)

FilteredWith(cat) ==
    {k \in DOMAIN filteredProducts :
        ExpectedCategory(filteredProducts[k], currentWeek) = cat}

\* C10: up is the number of filtered products classified 'increase' and down the
\* number classified 'decrease' at the current week; 'stable' products are counted
\* in neither, so up + down <= size of the filtered collection and the stable count
\* is the remainder.
C10_DirectionCounts ==
    /\ weekDirectionCounts.up = Cardinality(FilteredWith("increase"))
    /\ weekDirectionCounts.down = Cardinality(FilteredWith("decrease"))
    /\ weekDirectionCounts.up + weekDirectionCounts.down <= Len(filteredProducts)
    /\ Len(filteredProducts) - weekDirectionCounts.up - weekDirectionCounts.down
           = Cardinality(FilteredWith("stable"))

\* a rising and a stable product are shown: one up, none down
C10_Witness ==
    /\ Len(filteredProducts) = 2
    /\ FilteredWith("stable") # {}
    /\ weekDirectionCounts.up = 1
    /\ weekDirectionCounts.down = 0

----------------------------------------------------------------------------
(* C11: the card's change versus the previous week, checked under SpecCalc *)

\* (weekPrice - prevPrice) / prevPrice * 100 from the exact-match prices of w and w - 1
PercentVsPrevious(p, w) ==
    JsTimes100(JsDiv(ExactPrice(p, w) - ExactPrice(p, w - 1), ExactPrice(p, w - 1)))

----------------------------------------------------------------------------
(* C12 - C13: the rows of the export, checked under Spec *)

\* 0 formatted with the given number of decimals: "0.0", "0.00"
FixedZero(digits) == [neg |-> FALSE, digits |-> digits, units |-> 0]

\* C12: in an export row built for week = 1, the previous-week price is 0, the
\* percent versus the previous week is 0 and the delta versus the previous week is
\* 0, for every product and every week-1 price.
C12_WeekOneExportRow ==
    currentWeek = 1 =>
        \A k \in DOMAIN rows :
            /\ rows[k].prevPrice = FixedZero(2)
            /\ rows[k].pctPrev = FixedZero(1)
            /\ rows[k].diffPrev = FixedZero(2)

\* C13: the percent versus reference and the delta versus reference written to an
\* export row are the values calculatePriceChange returns (percent, change) for
\* that product and week, in the export's formatting; the export has exactly one
\* row per product of the filtered collection, in the same order, each carrying
\* the current week number.
C13_ExportMatchesPriceChange ==
    rows # <<>> =>
        /\ Len(rows) = Len(filteredProducts)
        /\ \A k \in DOMAIN rows :
               LET pc == calculatePriceChange(filteredProducts[k], currentWeek)
               IN  /\ rows[k].name = filteredProducts[k].name
                   /\ rows[k].week = currentWeek
                   /\ rows[k].pctRef = toFixed(pc.percent, 1)
                   /\ rows[k].diffRef = toFixed(Num(pc.change, 1), 2)

----------------------------------------------------------------------------
(* C14 - C18: parseCSV, checked under SpecCsv *)

Returned == ret.pc = "done"

Digit == {"0", "1", "2", "3", "4", "5", "6", "7", "8", "9"}

\* a '0' followed by one or more digits
ZeroThenDigits(v) ==
    Len(v) >= 2 /\ v[1] = "0" /\ \A k \in 2..Len(v) : v[k] \in Digit

Unsigned(v) == IF Len(v) > 0 /\ v[1] = "-" THEN Tail(v) ELSE v

\* an optionally '-'-signed decimal number: digits, then possibly a point and digits
SignedDecimal(v) ==
    LET u == Unsigned(v)
    IN  \E w \in 1..Len(u) :
            /\ \A k \in 1..w : u[k] \in Digit
            /\ \/ w = Len(u)
               \/ /\ w + 2 <= Len(u)
                  /\ u[w + 1] = "."
                  /\ \A k \in (w + 2)..Len(u) : u[k] \in Digit

\* the number a signed decimal denotes
DecimalOf(v) ==
    LET u == Unsigned(v)
        point == {k \in DOMAIN u : u[k] = "."}
        scale == IF point = {} THEN 1 ELSE Pow10(Len(u) - Max(point))
        magnitude == DigitsValue(SelectSeq(u, LAMBDA ch : ch \in Digit))
    IN  Num(IF Len(v) > Len(u) THEN 0 - magnitude ELSE magnitude, scale)

\* C14: parseCSV coerces each trimmed field by its form: empty stays the empty
\* string; a '0' followed by one or more digits stays a string; any other optionally
\* '-'-signed decimal number becomes that number; every other value stays a string.
C14_TypeCoercion ==
    (Returned /\ arg.kind = "coerce") =>
        LET v == trim(arg.value)
            cell == ret.data[1][<<"a">>]
        IN  /\ Len(ret.data) = 1
            /\ IF v = <<>> THEN cell = [str |-> <<>>]
               ELSE IF ZeroThenDigits(v) THEN cell = [str |-> v]
               ELSE IF SignedDecimal(v)
               THEN "num" \in DOMAIN cell /\ SameNumber(cell.num, DecimalOf(v))
               ELSE cell = [str |-> v]

\* the field 01 has been returned as the string 01
C14_Witness ==
    /\ Returned /\ arg.kind = "coerce"
    /\ arg.value = <<"0", "1">>
    /\ ret.data[1][<<"a">>] = [str |-> <<"0", "1">>]

\* C15: CSV round trip: for a table of string fields (commas, double quotes and
\* embedded newlines included) written as RFC 4180 text with a header row, parseCSV
\* returns one record per data row whose field values are exactly the original
\* strings.
C15_RoundTrip ==
    (Returned /\ arg.kind = "roundTrip") =>
        /\ Len(ret.data) = Len(arg.table) - 1
        /\ \A r \in DOMAIN ret.data :
               \A c \in DOMAIN arg.table[1] :
                   ret.data[r][arg.table[1][c]] = [str |-> arg.table[r + 1][c]]

\* the rows the scanner kept: the header row and the data rows
KeptRows == ret.scan.rows
HeaderNames == {trim(KeptRows[1][k]) : k \in DOMAIN KeptRows[1]}

\* C16: every record returned by parseCSV has exactly the header names as its keys:
\* a data row with fewer fields than the header gets the empty string for each
\* missing trailing field, and fields beyond the header length are dropped.
C16_RecordKeys ==
    (Returned /\ Len(KeptRows) > 0) =>
        /\ Len(ret.data) = Len(KeptRows) - 1
        /\ \A r \in DOMAIN ret.data :
               /\ DOMAIN ret.data[r] = HeaderNames
               /\ \A k \in DOMAIN KeptRows[1] :
                      k > Len(KeptRows[r + 1]) =>
                          ret.data[r][trim(KeptRows[1][k])] = [str |-> <<>>]

\* under a header of two names, a data row of one field has been returned with
\* both keys, the second one empty
C16_Witness ==
    /\ Returned
    /\ Len(KeptRows) = 2
    /\ Len(KeptRows[1]) = 2 /\ Len(KeptRows[2]) = 1
    /\ Cardinality(HeaderNames) = 2
    /\ DOMAIN ret.data[1] = HeaderNames
    /\ \E h \in HeaderNames : ret.data[1][h] # [str |-> <<>>]

\* a row whose fields are all empty or white space
BlankRow(row) == \A k \in DOMAIN row : trim(row[k]) = <<>>

\* in a text without quotes, the lines that hold more than commas and white space,
\* each given by the position of its first such character
Solid(t, k) == t[k] \notin {SPACE, COMMA, LF, CR}
NonBlankLines(t) ==
    {k \in DOMAIN t :
        /\ Solid(t, k)
        /\ \A j \in 1..(k - 1) :
               Solid(t, j) => \E m \in (j + 1)..(k - 1) : t[m] \in {LF, CR}}
QuoteFree(t) == \A k \in DOMAIN t : t[k] # QUOTE

\* C17: parseCSV discards every row whose fields are all empty or white space, so
\* blank lines anywhere in the text produce no record: no kept row is blank, and a
\* text without quotes gives one record per non-blank line after the first.  It
\* returns an empty sequence for a text that is empty after trimming and when only
\* a header row is present.
C17_BlankRowsDiscarded ==
    /\ \A r \in DOMAIN KeptRows : ~BlankRow(KeptRows[r])
    /\ Returned =>
           /\ trim(arg.csvText) = <<>> => ret.data = <<>>
           /\ Len(KeptRows) <= 1 => ret.data = <<>>
           /\ QuoteFree(arg.csvText) =>
                  /\ Len(KeptRows) = Cardinality(NonBlankLines(arg.csvText))
                  /\ Len(KeptRows) >= 1 => Len(ret.data) = Len(KeptRows) - 1

\* a line of one space between the header and the only data row gave no record
C17_Witness ==
    /\ Returned
    /\ arg.csvText = <<"a", LF, SPACE, LF, "a">>
    /\ Len(ret.data) = 1

\* the character under the scanner, and whether the next one is a quote
Scanning == ret.pc = "scan" /\ ret.scan.i <= Len(ret.text)
Current == ret.text[ret.scan.i]
QuoteFollows == ret.scan.i + 1 <= Len(ret.text) /\ ret.text[ret.scan.i + 1] = QUOTE

\* one iteration of the loop, as the claim describes it: the scanner goes on, moves
\* forward and stays within the text; with the quote state open a comma or a
\* newline is appended to the field and ends neither the field nor the row, and a
\* doubled quote appends one quote and leaves the quote state open
TolerantIteration ==
    Scanning =>
        /\ ret'.pc = "scan" /\ ret'.text = ret.text
        /\ ret'.scan.i > ret.scan.i /\ ret'.scan.i <= Len(ret.text) + 1
        /\ (ret.scan.inQuotes /\ Current \in {COMMA, LF}) =>
               /\ ret'.scan.field = Append(ret.scan.field, Current)
               /\ ret'.scan.curRow = ret.scan.curRow
               /\ ret'.scan.rows = ret.scan.rows
               /\ ret'.scan.inQuotes
        /\ (ret.scan.inQuotes /\ Current = QUOTE /\ QuoteFollows) =>
               /\ ret'.scan.field = Append(ret.scan.field, QUOTE)
               /\ ret'.scan.curRow = ret.scan.curRow
               /\ ret'.scan.rows = ret.scan.rows
               /\ ret'.scan.inQuotes
               /\ ret'.scan.i = ret.scan.i + 2

\* the end of the text: the call returns
AtEnd == ret.pc = "scan" /\ ret.scan.i > Len(ret.text)
LastRow == Append(ret.scan.curRow, ret.scan.field)

\* C18 (as claimed): the scanner never fails and always finishes: every iteration
\* is a tolerant one, and at the end of the text the call returns; a quote left
\* open makes the rest of the text part of the current field, which is still
\* emitted as the last field of the last row.
C18_TolerantScanner ==
    [][/\ TolerantIteration
       /\ AtEnd => ret'.pc = "done"
       /\ (AtEnd /\ ret.scan.inQuotes) =>
              ret'.scan.rows = Append(ret.scan.rows, LastRow)]_vars

\* C18 (amended): the scanner never fails and always finishes: every iteration is a
\* tolerant one, and at the end of the text the call returns; a quote left open
\* makes the rest of the text part of the current field, which is emitted as the
\* last field of the last row unless every field of that row is blank: then the
\* row is dropped like any blank row.
C18_TolerantScannerBlankDropped ==
    [][/\ TolerantIteration
       /\ AtEnd => ret'.pc = "done"
       /\ (AtEnd /\ ret.scan.inQuotes) =>
              ret'.scan.rows = IF BlankRow(LastRow) THEN ret.scan.rows
                               ELSE Append(ret.scan.rows, LastRow)]_vars

\* a quote left open took a comma and a newline into the last field of the last row
C18_Witness ==
    /\ Returned
    /\ ret.scan.inQuotes
    /\ Len(KeptRows) = 2
    /\ \E f \in {KeptRows[2][Len(KeptRows[2])]} :
           /\ \E k \in DOMAIN f : f[k] = COMMA
           /\ \E k \in DOMAIN f : f[k] = LF

----------------------------------------------------------------------------
(* C19 - C20: loadDataFromCSV, checked under SpecLoad *)

Loaded == ret.pc = "returned"

\* a text without its leading zeros
WithoutLeadingZeros(t) ==
    LET first == {k \in DOMAIN t : t[k] # "0"}
    IN  IF first = {} THEN <<>> ELSE SubSeq(t, Min(first), Len(t))

\* the data rows of the two files, as written
ProductRows == Tail(arg.productsTable)
PriceRows == Tail(arg.pricesTable)

\* the price rows, in the order of the file, whose id is that of the product
\* row once leading zeros are left out of both
MatchingPriceRows(id) ==
    SelectSeq(PriceRows, LAMBDA row : WithoutLeadingZeros(row[1]) = WithoutLeadingZeros(id))

\* C19: after a load, every product id and every observation product_id has its
\* leading zeros stripped, and each product's price list is exactly the
\* observations, in file order, whose normalized product_id equals the product's
\* normalized id; a product with no matching observation gets an empty price list
\* and the load still returns it.
C19_NormalizedJoin ==
    Loaded =>
        /\ Len(ret.productsWithPrices) = Len(ProductRows)
        /\ \A k \in DOMAIN ret.productsWithPrices :
               LET product == ret.productsWithPrices[k]
                   expected == MatchingPriceRows(product.id)
               IN  /\ \E r \in DOMAIN ProductRows :
                          product.id = WithoutLeadingZeros(ProductRows[r][1])
                   /\ product.id = WithoutLeadingZeros(product.id)
                   /\ Len(product.prices) = Len(expected)
                   /\ \A n \in DOMAIN expected :
                          /\ product.prices[n].product_id
                                 = WithoutLeadingZeros(expected[n][1])
                          /\ product.prices[n].product_id = product.id
                          /\ NumberToString(product.prices[n].week_number)
                                 = expected[n][2]
                          /\ NumberToString(product.prices[n].price) = expected[n][3]

\* the products 011 and 7 are loaded with the price rows of 11 and of 011: the
\* first has both observations, the second none
C19_Witness ==
    /\ Loaded
    /\ ProductRows = <<<<<<"0", "1", "1">>, <<"1">>>>, <<<<"7">>, <<"2">>>>>>
    /\ [r \in DOMAIN PriceRows |-> PriceRows[r][1]] = <<<<"1", "1">>, <<"0", "1", "1">>>>
    /\ Len(ret.productsWithPrices[1].prices) = 2
    /\ Len(ret.productsWithPrices[2].prices) = 0

\* the one-to-one assignments of the returned positions to the product rows
Assignments(n) == {f \in [1..n -> 1..n] : \A j, k \in 1..n : f[j] = f[k] => j = k}

\* C20: the product list returned by loadDataFromCSV is sorted ascending by
\* display_order, products with equal display_order keep their relative order from
\* the products file, and the list is a permutation of the parsed product rows.
C20_SortedByDisplayOrder ==
    Loaded =>
        LET out == ret.productsWithPrices
            n == Len(ProductRows)
        IN  /\ Len(out) = n
            /\ \A k \in 1..(n - 1) :
                   ~JsLt(out[k + 1].display_order, out[k].display_order)
            /\ \E f \in Assignments(n) :
                   /\ \A k \in 1..n :
                          /\ out[k].id = WithoutLeadingZeros(ProductRows[f[k]][1])
                          /\ NumberToString(out[k].display_order) = ProductRows[f[k]][2]
                   /\ \A j, k \in 1..n :
                          (j < k /\ out[j].display_order = out[k].display_order) =>
                              f[j] < f[k]

\* the rows (7, 2) and (11, 1) are returned as 11, 7
C20_Witness ==
    /\ Loaded
    /\ ProductRows = <<<<<<"7">>, <<"2">>>>, <<<<"1", "1">>, <<"1">>>>>>
    /\ ret.productsWithPrices[1].id = <<"1", "1">>
    /\ ret.productsWithPrices[2].id = <<"7">>

----------------------------------------------------------------------------
(* C21 - C23, C25 - C27, C29: the whole load, checked under SpecLoadData *)

BothOk == ret.productsResponse = "ok" /\ ret.pricesResponse = "ok"
BothSettled == ret.productsResponse # "pending" /\ ret.pricesResponse # "pending"
SomeFailed ==
    \/ ret.productsResponse \in {"notOk", "rejected"}
    \/ ret.pricesResponse \in {"notOk", "rejected"}
PastTheFetches == ret.pc \in {"fetched", "parsed", "returned"}
Rejected == ret.pc = "rejected"

\* C21: the two fetches are awaited together.  Whatever the order in which they
\* settle and whatever their outcomes, the load gets past the fetches, and so
\* resolves with a product list, only when both responses arrived with an OK
\* status; once both have settled and one of them was rejected or not OK, the load
\* rejects; and the application never shows loaded products unless both sources
\* were delivered.
C21_BothSourcesOrNone ==
    /\ [](PastTheFetches => BothOk)
    /\ []((BothSettled /\ SomeFailed) => ret.pc \in {"fetching", "rejected"})
    /\ [][(ret.pc = "fetching" /\ ret'.pc # "fetching") =>
             ret'.pc = IF BothOk THEN "fetched" ELSE "rejected"]_vars
    /\ (BothSettled /\ SomeFailed) ~> Rejected
    /\ []((~loading /\ ~usingSampleData) => (BothOk /\ Loaded))
    /\ []((~loading /\ SomeFailed) => usingSampleData)

\* the products arrived, the prices came with a status that is not OK: the load
\* was rejected and the application shows the sample data
C21_Witness ==
    /\ ret.productsResponse = "ok"
    /\ ret.pricesResponse = "notOk"
    /\ Rejected
    /\ ~loading
    /\ usingSampleData
    /\ Len(Tail(arg.productsTable)) > 0

\* the data rows the two texts were parsed to
Parsed == ret.pc \in {"parsed", "returned"}
NoProductRows == Parsed /\ Len(ret.productsRaw) = 0
NoPriceRows == Parsed /\ Len(ret.pricesRaw) = 0

\* the application shows the bundled sample dataset
ShowsSampleData ==
    /\ usingSampleData
    /\ {products[i].id : i \in DOMAIN products}
           = {sampleProducts[i].id : i \in DOMAIN sampleProducts}

\* C22: when the products file or the weekly-prices file parses to no data row,
\* the load counts as failed: once loading is over the application shows the
\* sample data and usingSampleData is true.
C22_EmptySourceFallsBack ==
    (~loading /\ (NoProductRows \/ NoPriceRows)) => ShowsSampleData

\* the call resolved with at least one product
ResolvedWithProducts == Loaded /\ Len(ret.productsWithPrices) > 0

\* the application shows the products the call resolved with
ShowsLoadedData ==
    /\ ~usingSampleData
    /\ Len(products) = Len(ret.productsWithPrices)
    /\ \A k \in DOMAIN ret.productsWithPrices :
           Cardinality({i \in DOMAIN products :
                           products[i].id = idText(ret.productsWithPrices[k].id)})
               = Cardinality({j \in DOMAIN ret.productsWithPrices :
                                 ret.productsWithPrices[j].id
                                     = ret.productsWithPrices[k].id})

\* C23: every load attempt ends.  When loadDataFromCSV rejects, loadData
\* eventually leaves with loading off, the sample dataset shown and
\* usingSampleData true; when it resolves with at least one product, loadData
\* eventually leaves with loading off, the loaded products shown and
\* usingSampleData false.  Loading is never off with an empty product collection,
\* and once off it stays off.
C23_LoadAttemptEnds ==
    /\ Rejected ~> (~loading /\ ShowsSampleData)
    /\ ResolvedWithProducts ~> (~loading /\ ShowsLoadedData)
    /\ []((~loading /\ Rejected) => ShowsSampleData)
    /\ []((~loading /\ ResolvedWithProducts) => ShowsLoadedData)
    /\ [](~loading => Len(products) > 0)
    /\ [][~loading => ~loading']_vars

\* the call resolved with the products 11 and 11 and the application shows them
C23_Witness ==
    /\ ~loading
    /\ ResolvedWithProducts
    /\ ShowsLoadedData
    /\ Len(products) = 2

----------------------------------------------------------------------------
(* C24: the numeric columns, checked under SpecCells *)

\* the cell a numeric column was loaded from; a column the text lacks has none
CellOf(k) == IF Len(arg.cells) = 0 THEN <<>> ELSE arg.cells[k]

\* the value of a cell, in the claim's terms: that of a decimal number, else 0
ExpectedNumber(cell) == IF SignedDecimal(cell) THEN DecimalOf(cell) ELSE Zero

\* C24: a malformed numeric cell never aborts the load: the product and its
\* observation are loaded, and reference_price, display_order, week_number and
\* price are numbers, equal to the value of the cell when the cell is numeric and
\* 0 when the cell is empty or not a number.
C24_LenientNumbers ==
    Loaded =>
        /\ Len(ret.productsWithPrices) = 1
        /\ Len(ret.productsWithPrices[1].prices) = 1
        /\ LET product == ret.productsWithPrices[1]
               observation == product.prices[1]
           IN  /\ SameNumber(product.reference_price, ExpectedNumber(CellOf(1)))
               /\ SameNumber(product.display_order, ExpectedNumber(CellOf(2)))
               /\ SameNumber(observation.week_number, ExpectedNumber(CellOf(2)))
               /\ SameNumber(observation.price, ExpectedNumber(CellOf(1)))

----------------------------------------------------------------------------
(* C25 - C27, C29: the loaded collection, checked under SpecLoadData *)

\* C25: no two products of a loaded collection have the same id, also when the
\* ids of the file differ only by leading zeros; the same holds for the products
\* the application shows.
C25_UniqueProductIds ==
    /\ Loaded =>
           \A j, k \in DOMAIN ret.productsWithPrices :
               j # k => ret.productsWithPrices[j].id # ret.productsWithPrices[k].id
    /\ ~loading =>
           \A j, k \in DOMAIN products : j # k => products[j].id # products[k].id

\* C26: whatever the weekly-prices file holds, the price list of a loaded product
\* has at most one observation for a week_number.
C26_OneObservationPerWeek ==
    Loaded =>
        \A i \in DOMAIN ret.productsWithPrices :
            LET prices == ret.productsWithPrices[i].prices
            IN  \A j, k \in DOMAIN prices :
                    j # k => prices[j].week_number # prices[k].week_number

\* the files of the scenario: the product 007 named Test with reference price 10
\* and display order 1, and its price 12 of week 1
Scenario ==
    /\ arg.productsTable
           = <<ProductsHeader, <<<<"0", "0", "7">>, TEST, <<"1", "0">>, <<"1">>>>>>
    /\ arg.pricesTable = <<PricesHeader, <<<<"0", "0", "7">>, <<"1">>, <<"1", "2">>>>>>

\* C27: the scenario loads to exactly one product, of id 7 and reference price 10,
\* with exactly one observation, the price 12 of week 1; the application evaluates
\* it at week 1 to the percent 20 and the category 'increase': it counts as a rise
\* and passes the filter 'increase' and no other category filter.
C27_EndToEnd ==
    Scenario =>
        /\ Loaded =>
               /\ Len(ret.productsWithPrices) = 1
               /\ ret.productsWithPrices[1].id = <<"7">>
               /\ ret.productsWithPrices[1].name = TEST
               /\ SameNumber(ret.productsWithPrices[1].reference_price, Num(10, 1))
               /\ Len(ret.productsWithPrices[1].prices) = 1
               /\ ret.productsWithPrices[1].prices[1].product_id = <<"7">>
               /\ SameNumber(ret.productsWithPrices[1].prices[1].week_number, Num(1, 1))
               /\ SameNumber(ret.productsWithPrices[1].prices[1].price, Num(12, 1))
        /\ (~loading /\ Loaded) =>
               /\ ~usingSampleData
               /\ currentWeek = 1
               /\ Len(allPriceChanges) = 1
               /\ allPriceChanges[1].product.id = "7"
               /\ allPriceChanges[1].change = 2
               /\ SameNumber(allPriceChanges[1].percent, Num(20, 1))
               /\ Len(filteredProducts) = (IF filterType \in {"all", "increase"} THEN 1 ELSE 0)
               /\ filterType = "all" => weekDirectionCounts = [up |-> 1, down |-> 0]

\* the scenario was loaded and the application shows its product as a rise
C27_Witness ==
    /\ Scenario
    /\ ~loading
    /\ Loaded
    /\ Len(products) = 1
    /\ filterType = "increase"
    /\ Len(filteredProducts) = 1

----------------------------------------------------------------------------
(* C28 - C30: the application after the load, checked under Spec and SpecLoadData *)

\* the derived values are those of the products at the current week
DerivedAtCurrentWeek ==
    /\ Len(filteredProducts) = Cardinality(Kept)
    /\ \A k \in DOMAIN filteredProducts :
           \E i \in Kept : filteredProducts[k] = products[i]
    /\ weekDirectionCounts.up = Cardinality(FilteredWith("increase"))
    /\ weekDirectionCounts.down = Cardinality(FilteredWith("decrease"))
    /\ Len(allPriceChanges) = Len(products)
    /\ \A i \in DOMAIN products :
           /\ allPriceChanges[i].product = products[i]
           /\ SameNumber(allPriceChanges[i].percent, PercentOf(i))
           /\ ReportedPrice(allPriceChanges[i], products[i])
                  = ExactPrice(products[i], currentWeek)
    /\ Len(products) > 0 =>
           /\ \E i \in DOMAIN products : maxIncrease = allPriceChanges[i]
           /\ \E i \in DOMAIN products : maxDecrease = allPriceChanges[i]
           /\ \A i \in DOMAIN products :
                  /\ ~JsGt(PercentOf(i), maxIncrease.percent)
                  /\ ~JsLt(PercentOf(i), maxDecrease.percent)

\* the rows of an export are those of the filtered products at the current week
ExportAtCurrentWeek ==
    rows # <<>> =>
        /\ Len(rows) = Len(filteredProducts)
        /\ \A k \in DOMAIN rows :
               /\ rows[k].name = filteredProducts[k].name
               /\ rows[k].week = currentWeek
               /\ rows[k].weekPrice
                      = toFixed(Num(ExactPrice(filteredProducts[k], currentWeek), 1), 2)

\* C28: once the load is over, no user action (selecting or deselecting a
\* product, changing the filter, changing the week, exporting) changes the
\* products, their observations, maxWeek or usingSampleData; the filtered list,
\* the direction counts, the price changes, maxIncrease and maxDecrease are those
\* of the products at the current week, and the rows of an export are those of
\* the filtered products at the current week.
C28_UserActionsKeepData ==
    /\ [][~loading =>
             /\ products' = products
             /\ maxWeek' = maxWeek
             /\ usingSampleData' = usingSampleData
             /\ loading' = loading]_vars
    /\ []DerivedAtCurrentWeek
    /\ []ExportAtCurrentWeek

\* the week was changed from the latest to an earlier one, the filter keeps a
\* part of the products, and the export was written
C28_Witness ==
    /\ ~loading
    /\ hasUserSelected
    /\ currentWeek < maxWeek
    /\ filterType # "all"
    /\ Len(filteredProducts) > 0
    /\ Len(filteredProducts) < Len(products)
    /\ rows # <<>>

\* the week numbers of all observations of the products shown
AllWeeks ==
    UNION {{products[i].prices[k].week_number : k \in DOMAIN products[i].prices} :
              i \in DOMAIN products}

\* the positions of the first product whose percent at week w no product exceeds
FirstHighestAt(w) ==
    {i \in DOMAIN products :
        /\ \A j \in DOMAIN products :
               ~JsGt(ExpectedPercent(products[j], w), ExpectedPercent(products[i], w))
        /\ \A j \in 1..(i - 1) :
               JsLt(ExpectedPercent(products[j], w), ExpectedPercent(products[i], w))}

\* what a load leaves besides maxWeek: the latest week is current, the first
\* product of the highest percent at that week is selected, no user selection
LoadedSelection ==
    /\ currentWeek = maxWeek
    /\ \E i \in FirstHighestAt(maxWeek) : selectedId = products[i].id
    /\ initialTopId = selectedId
    /\ ~hasUserSelected

\* a step that ends the load, by either path
LoadEnds == loading /\ ~loading'

\* after the load the current week changes only by the week selector, to a week
\* it offers
WeekSetBySelector ==
    (~loading /\ currentWeek' # currentWeek) =>
        /\ currentWeek' \in 1..maxWeek
        /\ UNCHANGED <<products, maxWeek, selectedId, filterType, hasUserSelected,
                       usingSampleData, initialTopId>>

\* C29 as stated: after the load, by either path, maxWeek is the greatest
\* week_number of all observations, and 1 when there is none; currentWeek equals
\* maxWeek, selectedId is the id of the first product with the highest percent
\* versus reference at that week, hasUserSelected is false; afterwards currentWeek
\* is only set by the week selector, to a value in 1..maxWeek.
C29_MaxWeekIsGreatestWeek ==
    /\ [][LoadEnds =>
             /\ maxWeek' = (IF AllWeeks' = {} THEN 1 ELSE Max(AllWeeks'))
             /\ LoadedSelection']_vars
    /\ [][WeekSetBySelector]_vars

\* C29, amended: after the load, by either path, maxWeek is the greatest of 1 and
\* the week_numbers of all observations; currentWeek equals maxWeek, selectedId is
\* the id of the first product with the highest percent versus reference at that
\* week, hasUserSelected is false; afterwards currentWeek is only set by the week
\* selector, to a value in 1..maxWeek, and maxWeek does not change.
C29_MaxWeekAtLeastOne ==
    /\ [][LoadEnds =>
             /\ maxWeek' = Max(AllWeeks' \cup {1})
             /\ LoadedSelection']_vars
    /\ [][WeekSetBySelector]_vars
    /\ [](~loading => (maxWeek = Max(AllWeeks \cup {1}) /\ currentWeek \in 1..maxWeek))

\* the only observation of the load has week_number 0 (its cell was not a
\* number): maxWeek is 1
C29_Witness ==
    /\ ~loading
    /\ ~usingSampleData
    /\ ~hasUserSelected
    /\ AllWeeks = {0}
    /\ maxWeek = 1
    /\ currentWeek = 1
    /\ selectedId # NULL

\* the displayed list is the filtered list with the product at position idx moved
\* to the front
MovedToFront(idx) ==
    displayedProducts
        = <<filteredProducts[idx]>> \o SubSeq(filteredProducts, 1, idx - 1)
              \o SubSeq(filteredProducts, idx + 1, Len(filteredProducts))

\* C30: whenever selectedId changes to a product the filter is reset to 'all', so
\* in every settled state a selected product implies the filter 'all'; the
\* displayed list is always a permutation of the filtered list, and it differs from
\* the filtered list only before the first user selection, by the initially
\* highlighted product being moved to the front.
C30_SelectionResetsFilter ==
    /\ [][(selectedId' # selectedId /\ selectedId' # NULL) => filterType' = "all"]_vars
    /\ [](selectedId # NULL => filterType = "all")
    /\ [](/\ Len(displayedProducts) = Len(filteredProducts)
          /\ \E f \in Assignments(Len(filteredProducts)) :
                 \A k \in DOMAIN displayedProducts :
                     displayedProducts[k] = filteredProducts[f[k]])
    /\ [](displayedProducts # filteredProducts =>
              /\ ~hasUserSelected
              /\ \E idx \in DOMAIN filteredProducts :
                     /\ filteredProducts[idx].id = initialTopId
                     /\ \A j \in 1..(idx - 1) : filteredProducts[j].id # initialTopId
                     /\ MovedToFront(idx))

\* before any user selection the highlighted product, the second of the list, is
\* displayed first; it is selected and the filter is 'all'
C30_Witness ==
    /\ ~loading
    /\ ~hasUserSelected
    /\ selectedId = initialTopId
    /\ filterType = "all"
    /\ Len(filteredProducts) = 2
    /\ filteredProducts[2].id = initialTopId
    /\ displayedProducts = <<filteredProducts[2], filteredProducts[1]>>

====
